---- MODULE Spec2Model ----
(***************************************************************************)
(* Verification model of the eden examples:                                *)
(*   - examples/analytics-demo/src/metrics.rs : LockFreeLatencyHistogram   *)
(*   - examples/redis-observer/src/main.rs    : migration controller       *)
(*   - examples/analytics-demo/src/database.rs, storage.rs, validation.rs, *)
(*     workers.rs                             : cache and query workers    *)
(*   - examples/analytics_example/rust_analytics_example_app/src/          *)
(*     workers.rs                             : organisation cache         *)
(*   - tools/redis-complexity-analyzer/src/main.rs : key type sampler      *)
(*                                                                         *)
(* Specifications                                                          *)
(*   SpecHist      record / get_percentiles_and_reset called one at a time *)
(*   SpecHistConc  the same two functions, one atomic operation per step,  *)
(*                 writers and the draining reader interleaved             *)
(*   SpecSetup     the controller from construction: 's' / Tab keys, the   *)
(*                 setup task(s), the UI thread's event processing         *)
(*   SpecRun       the controller once setup has completed: command keys,  *)
(*                 the command tasks, the UI thread's event processing     *)
(*   SpecUI        one command key or one incoming event at a time, from   *)
(*                 every state the UI thread can hold; the traffic task    *)
(*   SpecCache     the analytics-demo cache operations called directly:    *)
(*                 get, the batch writes, increments and deletes           *)
(*   SpecWorkers   the analytics-demo query workers and their sampled      *)
(*                 read-back validation, for every configured rate         *)
(*   SpecStorage   set / get / del of one storage backend (json, hash or   *)
(*                 zset) over a Redis database whose keys expire           *)
(*   SpecOrgs      the organisation cache: its refresh and a query worker  *)
(*   SpecOrgsFair  SpecOrgs with the worker and the refresh scheduled      *)
(*                 weakly fairly                                           *)
(*   SpecPool      callers of the connection pool's get_conn, interleaved  *)
(*   SpecCoverage  the controller's coverage check over the instances      *)
(*   SpecSampler   one sample_key_types call of the complexity analyzer    *)
(*   SpecSetupRace the start of setup with 's' pressed more than once      *)
(*   SpecLog       log_debug called with one message after another         *)
(*   SpecCounters  the query workers' increments of the query, hit and     *)
(*                 miss counters, interleaved                              *)
(***************************************************************************)
EXTENDS Integers, Sequences, FiniteSets, Bags, TLC

(***************************************************************************)
(* Bounds of the model                                                     *)
(***************************************************************************)
\* number of reservoir slots explored (metrics.rs:10 sets 8192)
SAMPLE_SLOTS == 3
\* largest latency value; stands for u64::MAX, arithmetic is modulo MaxNs+1
MaxNs == 3
\* cap on total_count between two drains
MaxCount == 4
\* number of threads calling record concurrently (SpecHistConc)
NumWriters == 1
\* SpecHistConc: latencies recorded are 1 .. ConcMaxNs, and total_count is
\* capped at ConcMaxCount between two drains
ConcMaxNs == 2
ConcMaxCount == 2
\* events the channel holds before send().await blocks (main.rs:2924 sets 100).
\* A sender blocked on the full channel stands for an event sent later, so
\* every order in which the event loop can receive the events remains.
ChanCap == 1
\* setup tasks that 's' keypresses can have started and that still run
MaxSetupTasks == 1
\* SpecSetupRace: setup tasks that repeated 's' keypresses can have started, and
\* the last step (0 = create organization, 1 = login) they are followed through
MaxRaceTasks == 2
MaxRaceStep == 1
\* tasks running at the same time once setup has completed
MaxTasks == 2
\* read_percentage is counted in steps of 0.05 (main.rs:2108, 2115); PctSteps
\* steps make 1.0 (20 in the program)
PctSteps == 3
\* sample rates are counted in units of 1/RateSteps: RateSteps stands for 1.0
RateSteps == 2
\* the largest value a Redis counter takes
MaxIncr == 1
\* the longest batch handed to a _batch operation
MaxBatch == 2
\* the longest TTL, in seconds, handed to a set
MaxTtl == 2
\* the organizations the database comes to hold
MaxOrgs == 2
\* threads calling get_conn, the largest pool_size, and the calls made in all
NumCallers == 2
MaxPool == 3
MaxCalls == 5
\* the Redis instances observed and the keys they can hold
NumInstances == 3
MaxKeys == 2
\* the sampler: DBSIZE and keys in the keyspace, min_samples and max_samples,
\* and the keys one SCAN returns at most
MaxDbKeys == 3
MaxSamples == 2
ScanCount == 2
\* the debug log: entries it keeps (main.rs:1829 keeps 20), distinct messages,
\* and log_debug calls explored
LogCapacity == 3
NumMessages == 3
MaxLogCalls == 5
\* query workers (the program starts at least 10) and the queries counted
NumQueryWorkers == 2
MaxQueries == 4

U64_MAX == MaxNs

Slots == 0 .. (SAMPLE_SLOTS - 1)
Latencies == 0 .. MaxNs
Writers == 1 .. NumWriters
ConcLatencies == 1 .. ConcMaxNs

VARIABLES
    \* LockFreeLatencyHistogram (metrics.rs:14-28)
    samples, write_idx, total_count, sum_ns, min_ns, max_ns,
    \* hlast: the call that returned in the last step ("new", "record", "drain";
    \* "run" when none did); hres: the tuple that get_percentiles_and_reset
    \* returned in the last step
    hres, hlast,
    \* SpecHistConc: the threads inside record (wr) and inside
    \* get_percentiles_and_reset (dr): position and local variables
    wr, dr,
    \* the record calls whose latency sum_ns holds
    sum_calls,
    \* redis-observer: App.migration_state (main.rs:237-253)
    migration_state,
    \* the mpsc channel of ApiEvent between the tasks and the UI thread
    chan,
    \* the spawned tasks still running: a bag of [kind, pc, step, val, how]
    tasks,
    \* the event handled by the last step of process_api_events with the
    \* status before it (NoEvent after any other step)
    last_event,
    \* "requested" from the rollback key on, then the status of the rollback
    \* response once its forced update is handled; "-" from any other command on
    rollback_response,
    \* how many setup tasks have been spawned
    setup_runs,
    \* analytics-demo: the content of the Redis server, key -> string (Nil when
    \* the key is absent)
    store,
    \* Config.validation_sample_rate (config.rs:61-64), in units of 1/RateSteps
    config_rate,
    \* DataValidator.sample_rate (validation.rs:15-18), in the same units
    sample_rate,
    \* the last call into the cache layer: its name, input, return value, the
    \* Redis commands it issued and the metrics events it recorded
    call,
    \* analytics-demo storage backends: the backend the build selected
    \* (storage.rs:2164-2198)
    backend,
    \* the Redis server with its expiry clock: Redis key -> [fields, expires,
    \* left]; a string key holds the one field "value"
    db,
    \* per cache key, what the last successful set or del of that key through
    \* the backend left: the payload and the seconds of its TTL not yet elapsed
    last_written,
    \* the last call into the storage backend
    scall,
    \* org cache: the number of rows of the organizations table
    db_orgs,
    \* OrgIdCache.org_ids and OrgIdCache.user_ids_by_org (workers.rs:25-28)
    org_ids, user_ids_by_org,
    \* the task running refresh: position, new_org_ids, new_user_map
    refresher,
    \* the query worker: position in run_worker, the organization picked, the
    \* org list it was picked from, whether the cache was written since
    worker,
    \* what the worker did in the last step
    wlast,
    \* every pair (organization list, user map) the cache was created with or
    \* a refresh set out to publish
    snapshots,
    \* connection pool: RedisConnectionPool.conn_count, the static COUNTER of
    \* get_conn, and each caller's position in get_conn with the value its
    \* fetch_add returned
    conn_count, COUNTER, callers,
    \* the calls of get_conn that returned, in order: caller, counter value
    \* observed, index of the connection handed out
    acquired,
    \* coverage check: the keys each observed Redis instance holds
    instance_keys,
    \* App.db_stats (main.rs:1763): per instance, unique_keys and coverage
    db_stats,
    \* whether the last step was a coverage check, the instances that answered
    \* it and the rows before it; the key sets of the last check that read the
    \* keys of every instance (<<>> before the first such check)
    checked,
    \* type sampler: the state of one sample_key_types call
    sm,
    \* App.debug_log (main.rs:1778)
    debug_log,
    \* every message passed to log_debug so far, oldest first
    logged,
    \* AppMetrics: queries_executed_total, cache_hits_total, cache_misses_total
    query_counters,
    \* the query workers: where each is in execute_diverse_query
    query_workers

hvars == <<samples, write_idx, total_count, sum_ns, min_ns, max_ns, hres, hlast>>
tvars == <<wr, dr, sum_calls>>

cvars == <<migration_state, chan, tasks, last_event, rollback_response, setup_runs>>

avars == <<store, config_rate, sample_rate, call>>

svars == <<backend, db, last_written, scall>>

ovars == <<db_orgs, org_ids, user_ids_by_org, refresher, worker, wlast, snapshots>>

pvars == <<conn_count, COUNTER, callers, acquired>>

kvars == <<instance_keys, db_stats, checked>>

mvars == <<sm>>

lvars == <<debug_log, logged>>

qvars == <<query_counters, query_workers>>

xvars == <<svars, ovars, pvars, kvars, mvars, lvars, qvars>>

vars == <<hvars, tvars, cvars, avars, xvars>>

(***************************************************************************)
(* LockFreeLatencyHistogram                                                *)
(***************************************************************************)
Min2(a, b) == IF a < b THEN a ELSE b
Max2(a, b) == IF a > b THEN a ELSE b

\* sort_unstable on a Vec<u64>
SortSamples(s) == SortSeq(s, LAMBDA a, b : a < b)

\* percentile(sorted_samples, percentile), metrics.rs:127-147.
\* pct is the integer percentile (50, 95, 99).  rank = pct/100 * (n-1) is kept
\* as the numerator pct*(n-1) over 100; the f64 result is returned multiplied
\* by 100 so that the interpolated value is an integer.
percentile(sorted_samples, pct) ==
    IF Len(sorted_samples) = 0 THEN 0
    ELSE LET n == Len(sorted_samples)
             rank100 == pct * (n - 1)
             lower_idx == rank100 \div 100
             upper_idx == IF rank100 % 100 = 0 THEN lower_idx ELSE lower_idx + 1
         IN IF lower_idx = upper_idx \/ upper_idx >= n
            THEN 100 * sorted_samples[Min2(lower_idx, n - 1) + 1]
            ELSE LET lower_val == sorted_samples[lower_idx + 1]
                     upper_val == sorted_samples[upper_idx + 1]
                 IN 100 * lower_val + (rank100 % 100) * (upper_val - lower_val)

\* The positive values of slots 0 .. k-1 in slot order (metrics.rs:101-106)
RECURSIVE CollectSamples(_, _)
CollectSamples(buf, k) ==
    IF k = 0 THEN <<>>
    ELSE IF buf[k - 1] > 0 THEN Append(CollectSamples(buf, k - 1), buf[k - 1])
         ELSE CollectSamples(buf, k - 1)

ZeroResult(count) ==
    [count |-> count, sum_ns |-> 0, min_us |-> 0, max_us |-> 0,
     p50_us |-> 0, p95_us |-> 0, p99_us |-> 0]

\* The tuple built at metrics.rs:108-123 from the swapped-out counters and the
\* collected samples.  Every *_us field is the f64 value times 100000 (the
\* division by 1000.0 and the factor 100 of percentile); avg_us is kept as its
\* numerator sum_ns over count.
DrainResult(count, sum, mn, mx, collected) ==
    IF count = 0 THEN ZeroResult(0)
    ELSE IF Len(collected) = 0 THEN ZeroResult(count)
    ELSE LET sorted == SortSamples(collected)
         IN [count |-> count, sum_ns |-> sum,
             min_us |-> IF mn = U64_MAX THEN 0 ELSE 100 * mn,
             max_us |-> 100 * mx,
             p50_us |-> percentile(sorted, 50),
             p95_us |-> percentile(sorted, 95),
             p99_us |-> percentile(sorted, 99)]

\* LockFreeLatencyHistogram::new, metrics.rs:31-41
HistNew ==
    /\ samples = [i \in Slots |-> 0]
    /\ write_idx = 0
    /\ total_count = 0
    /\ sum_ns = 0
    /\ min_ns = U64_MAX
    /\ max_ns = 0
    /\ hres = ZeroResult(0)
    /\ hlast = "new"

\* record(latency_ns) run to completion with nothing interleaved,
\* metrics.rs:44-82.  write_idx only matters modulo SAMPLE_SLOTS (8192 divides
\* 2^64), so it is kept modulo SAMPLE_SLOTS.
record(latency_ns) ==
    /\ total_count < MaxCount
    /\ total_count' = total_count + 1
    /\ sum_ns' = (sum_ns + latency_ns) % (MaxNs + 1)
    /\ min_ns' = IF latency_ns < min_ns THEN latency_ns ELSE min_ns
    /\ max_ns' = IF latency_ns > max_ns THEN latency_ns ELSE max_ns
    /\ write_idx' = (write_idx + 1) % SAMPLE_SLOTS
    /\ samples' = [samples EXCEPT ![write_idx % SAMPLE_SLOTS] = latency_ns]
    /\ hres' = ZeroResult(0)
    /\ hlast' = "record"
    /\ UNCHANGED <<tvars, cvars, avars, xvars>>

\* get_percentiles_and_reset run to completion with nothing interleaved,
\* metrics.rs:86-124
get_percentiles_and_reset ==
    LET count == total_count
        sample_count == Min2(count, SAMPLE_SLOTS)
    IN /\ total_count' = 0
       /\ sum_ns' = 0
       /\ min_ns' = U64_MAX
       /\ max_ns' = 0
       /\ samples' = IF count = 0 THEN samples
                     ELSE [i \in Slots |-> IF i < sample_count THEN 0 ELSE samples[i]]
       /\ hres' = DrainResult(count, sum_ns, min_ns, max_ns,
                              CollectSamples(samples, sample_count))
       /\ hlast' = "drain"
       /\ UNCHANGED <<write_idx, tvars, cvars, avars, xvars>>

RecordSeq == \E ns \in Latencies : record(ns)
DrainSeq == get_percentiles_and_reset

NextHist == RecordSeq \/ DrainSeq

(***************************************************************************)
(* The same two functions, one atomic operation per step                   *)
(***************************************************************************)
WriterIdle == [pc |-> "idle", latency_ns |-> 0, current |-> 0, idx |-> 0]
\* calls: the record calls whose latency the sum taken holds
DrainIdle == [pc |-> "idle", count |-> 0, sum_ns |-> 0, min_ns |-> 0, max_ns |-> 0,
              i |-> 0, collected |-> <<>>, calls |-> 0]

\* hres and hlast describe a return only in the state right after it
Running == hres' = ZeroResult(0) /\ hlast' = "run" /\ UNCHANGED <<cvars, avars, xvars>>

ThreadsNew ==
    /\ wr = [w \in Writers |-> WriterIdle]
    /\ dr = DrainIdle
    /\ sum_calls = 0

\* metrics.rs:46  total_count.fetch_add(1)
RecCount(w) ==
    /\ wr[w].pc = "idle"
    /\ total_count < ConcMaxCount
    /\ \E ns \in ConcLatencies :
           wr' = [wr EXCEPT ![w] = [WriterIdle EXCEPT !.pc = "sum", !.latency_ns = ns]]
    /\ total_count' = total_count + 1
    /\ Running
    /\ UNCHANGED <<samples, write_idx, sum_ns, min_ns, max_ns, dr, sum_calls>>

\* metrics.rs:49  sum_ns.fetch_add(latency_ns)
RecSum(w) ==
    /\ wr[w].pc = "sum"
    /\ sum_ns' = (sum_ns + wr[w].latency_ns) % (MaxNs + 1)
    /\ wr' = [wr EXCEPT ![w].pc = "min_load"]
    /\ Running
    /\ sum_calls' = sum_calls + 1
    /\ UNCHANGED <<samples, write_idx, total_count, min_ns, max_ns, dr>>

\* metrics.rs:52-53  current_min = min_ns.load(); while latency_ns < current_min
RecMinLoad(w) ==
    /\ wr[w].pc = "min_load"
    /\ wr' = [wr EXCEPT ![w].current = IF wr[w].latency_ns < min_ns THEN min_ns ELSE 0,
                        ![w].pc = IF wr[w].latency_ns < min_ns THEN "min_cas" ELSE "max_load"]
    /\ Running
    /\ UNCHANGED <<samples, write_idx, total_count, sum_ns, min_ns, max_ns, dr, sum_calls>>

\* metrics.rs:54-62  compare_exchange_weak(current_min, latency_ns); a failed
\* exchange reloads current_min and re-tests the loop condition
RecMinCas(w) ==
    /\ wr[w].pc = "min_cas"
    /\ IF min_ns = wr[w].current
       THEN /\ min_ns' = wr[w].latency_ns
            /\ wr' = [wr EXCEPT ![w].pc = "max_load", ![w].current = 0]
       ELSE /\ min_ns' = min_ns
            /\ wr' = [wr EXCEPT ![w].current = IF wr[w].latency_ns < min_ns THEN min_ns ELSE 0,
                                ![w].pc = IF wr[w].latency_ns < min_ns THEN "min_cas" ELSE "max_load"]
    /\ Running
    /\ UNCHANGED <<samples, write_idx, total_count, sum_ns, max_ns, dr, sum_calls>>

\* metrics.rs:66-67  current_max = max_ns.load(); while latency_ns > current_max
RecMaxLoad(w) ==
    /\ wr[w].pc = "max_load"
    /\ wr' = [wr EXCEPT ![w].current = IF wr[w].latency_ns > max_ns THEN max_ns ELSE 0,
                        ![w].pc = IF wr[w].latency_ns > max_ns THEN "max_cas" ELSE "idx"]
    /\ Running
    /\ UNCHANGED <<samples, write_idx, total_count, sum_ns, min_ns, max_ns, dr, sum_calls>>

\* metrics.rs:68-76
RecMaxCas(w) ==
    /\ wr[w].pc = "max_cas"
    /\ IF max_ns = wr[w].current
       THEN /\ max_ns' = wr[w].latency_ns
            /\ wr' = [wr EXCEPT ![w].pc = "idx", ![w].current = 0]
       ELSE /\ max_ns' = max_ns
            /\ wr' = [wr EXCEPT ![w].current = IF wr[w].latency_ns > max_ns THEN max_ns ELSE 0,
                                ![w].pc = IF wr[w].latency_ns > max_ns THEN "max_cas" ELSE "idx"]
    /\ Running
    /\ UNCHANGED <<samples, write_idx, total_count, sum_ns, min_ns, dr, sum_calls>>

\* metrics.rs:80  idx = write_idx.fetch_add(1) % SAMPLE_SLOTS
RecIdx(w) ==
    /\ wr[w].pc = "idx"
    /\ wr' = [wr EXCEPT ![w].idx = write_idx % SAMPLE_SLOTS, ![w].pc = "store"]
    /\ write_idx' = (write_idx + 1) % SAMPLE_SLOTS
    /\ Running
    /\ UNCHANGED <<samples, total_count, sum_ns, min_ns, max_ns, dr, sum_calls>>

\* metrics.rs:81  samples[idx].store(latency_ns); record returns
RecStore(w) ==
    /\ wr[w].pc = "store"
    /\ samples' = [samples EXCEPT ![wr[w].idx] = wr[w].latency_ns]
    /\ wr' = [wr EXCEPT ![w] = WriterIdle]
    /\ hres' = ZeroResult(0)
    /\ hlast' = "record"
    /\ UNCHANGED <<write_idx, total_count, sum_ns, min_ns, max_ns, dr, sum_calls, cvars, avars, xvars>>

\* a swap that leaves the old value in place (a load)
swap_KeepsOld(value, new) == [old |-> value, new |-> value]

\* AtomicU64::swap: the value taken and the value left, in one step
swap(value, new) == [old |-> value, new |-> new]

\* metrics.rs:88  count = total_count.swap(0)
DrainCount ==
    /\ dr.pc = "idle"
    /\ dr' = [DrainIdle EXCEPT !.pc = "sum", !.count = swap(total_count, 0).old]
    /\ total_count' = swap(total_count, 0).new
    /\ Running
    /\ UNCHANGED <<samples, write_idx, sum_ns, min_ns, max_ns, wr, sum_calls>>

\* metrics.rs:89  sum_ns.swap(0)
DrainSum ==
    /\ dr.pc = "sum"
    /\ dr' = [dr EXCEPT !.pc = "min", !.sum_ns = sum_ns, !.calls = sum_calls]
    /\ sum_ns' = 0
    /\ Running
    /\ sum_calls' = 0
    /\ UNCHANGED <<samples, write_idx, total_count, min_ns, max_ns, wr>>

\* metrics.rs:90  min_ns.swap(u64::MAX)
DrainMin ==
    /\ dr.pc = "min"
    /\ dr' = [dr EXCEPT !.pc = "max", !.min_ns = min_ns]
    /\ min_ns' = U64_MAX
    /\ Running
    /\ UNCHANGED <<samples, write_idx, total_count, sum_ns, max_ns, wr, sum_calls>>

\* metrics.rs:91-95  max_ns.swap(0); if count == 0 return zeros
DrainMax ==
    /\ dr.pc = "max"
    /\ max_ns' = 0
    /\ IF dr.count = 0
       THEN /\ dr' = DrainIdle
            /\ hres' = ZeroResult(0)
            /\ hlast' = "drain"
            /\ UNCHANGED <<cvars, avars, xvars>>
       ELSE /\ dr' = [dr EXCEPT !.pc = "collect", !.max_ns = max_ns]
            /\ Running
    /\ UNCHANGED <<samples, write_idx, total_count, sum_ns, min_ns, wr, sum_calls>>

\* metrics.rs:101-106  one iteration: val = samples[i].swap(0); keep val > 0.
\* After the last iteration the tuple is computed and returned (108-123).
DrainCollect ==
    /\ dr.pc = "collect"
    /\ LET val == samples[dr.i]
           acc == IF val > 0 THEN Append(dr.collected, val) ELSE dr.collected
       IN /\ samples' = [samples EXCEPT ![dr.i] = 0]
          /\ IF dr.i + 1 < Min2(dr.count, SAMPLE_SLOTS)
             THEN /\ dr' = [dr EXCEPT !.i = dr.i + 1, !.collected = acc]
                  /\ Running
             ELSE /\ dr' = DrainIdle
                  /\ hres' = DrainResult(dr.count, dr.sum_ns, dr.min_ns, dr.max_ns, acc)
                  /\ hlast' = "drain"
                  /\ UNCHANGED <<cvars, avars, xvars>>
    /\ UNCHANGED <<write_idx, total_count, sum_ns, min_ns, max_ns, wr, sum_calls>>

RecordStep ==
    \E w \in Writers :
        \/ RecCount(w) \/ RecSum(w) \/ RecMinLoad(w) \/ RecMinCas(w)
        \/ RecMaxLoad(w) \/ RecMaxCas(w) \/ RecIdx(w) \/ RecStore(w)

DrainStep == DrainCount \/ DrainSum \/ DrainMin \/ DrainMax \/ DrainCollect

NextHistConc == RecordStep \/ DrainStep

(***************************************************************************)
(* redis-observer: data model                                              *)
(***************************************************************************)
\* MigrationStatus, main.rs:196-210
MigrationStatuses ==
    {"NotSetup", "Pending", "Testing", "Ready", "Running", "PartialFailure",
     "Failed", "Paused", "Cancelled", "Completed", "RollingBack", "RolledBack"}

\* What the status field of an API response can hold: absent ("None"), one of
\* the eleven names parse_migration_status knows, or any other text ("Unknown")
ApiStatusStrings == (MigrationStatuses \ {"NotSetup"}) \cup {"None", "Unknown"}

\* parse_migration_status, main.rs:326-341
parse_migration_status(s) ==
    IF s \in {"Testing", "Ready", "Running", "PartialFailure", "Failed", "Paused",
              "Cancelled", "Completed", "RollingBack", "RolledBack"}
    THEN s
    ELSE "Pending"

\* SetupStep (main.rs:183-194) and ApiCallStatus (main.rs:212-219): a tag and,
\* for Failed(msg), the message
Step(tag) == [tag |-> tag, msg |-> "-"]
FailedWith(msg) == [tag |-> "Failed", msg |-> msg]

\* the SetupStep announced before API call index i (main.rs:1092-1099)
StepNames ==
    <<"CreatingOrganization", "LoggingIn", "CreatingSourceEndpoint",
      "CreatingDestEndpoint", "CreatingInterlay", "CreatingMigration",
      "AddingInterlay">>

CREATE_ORG == 0
LOGIN == 1
CREATE_SOURCE_EP == 2
CREATE_DEST_EP == 3
CREATE_INTERLAY == 4
CREATE_MIGRATION == 5
ADD_INTERLAY == 6
CallIndices == CREATE_ORG .. ADD_INTERLAY

\* MigrationState::new, main.rs:256-280.  The Option<String> identifiers are
\* kept as "is_some"; read_percentage counts steps of 5% (0.05 at start).
MigrationStateNew ==
    [setup_step |-> Step("NotStarted"),
     auth_token |-> FALSE,
     source_endpoint_id |-> FALSE,
     dest_endpoint_id |-> FALSE,
     interlay_id |-> FALSE,
     migration_id |-> FALSE,
     status |-> "NotSetup",
     last_error |-> "-",
     api_calls |-> [i \in CallIndices |-> Step("Pending")],
     mode |-> "BigBang",
     read_percentage |-> 1]

\* MigrationState::update_api_call, main.rs:282-286
update_api_call(ms, index, status) ==
    IF index \in DOMAIN ms.api_calls
    THEN [ms EXCEPT !.api_calls[index] = status]
    ELSE ms

\* MigrationState::is_ready, main.rs:288-290
is_ready(ms) == ms.setup_step = Step("Ready")

\* MigrationMode::toggle, main.rs:145-150
toggle(mode) == IF mode = "BigBang" THEN "Canary" ELSE "BigBang"

(***************************************************************************)
(* ApiEvent (main.rs:347-384).  src names the task that sent the event; it *)
(* is not part of the program's message.                                   *)
(***************************************************************************)
Event(type, src) ==
    [type |-> type, index |-> 0, tag |-> "-", msg |-> "-", force |-> FALSE, src |-> src]

SetupProgress(tag, src) == [Event("SetupProgress", src) EXCEPT !.tag = tag]
ApiCallUpdate(index, status, src) ==
    [Event("ApiCallUpdate", src) EXCEPT !.index = index, !.tag = status.tag, !.msg = status.msg]
SetupFailed(msg, src) == [Event("SetupFailed", src) EXCEPT !.msg = msg]
MigrationStatusUpdate(status, force, src) ==
    [Event("MigrationStatusUpdate", src) EXCEPT !.tag = status, !.force = force]
ErrorEvent(type, msg, src) == [Event(type, src) EXCEPT !.msg = msg]

NoEvent == [ev |-> Event("-", "-"), old |-> "-"]

(***************************************************************************)
(* App::process_api_events, main.rs:1835-1996                              *)
(***************************************************************************)
\* should_skip without the protection of terminal states: only the downgrade
\* of Running is refused
should_skip_NoProtection(current, status, force) ==
    IF force THEN FALSE
    ELSE current = "Running" /\ status \in {"Pending", "Testing", "Ready"}

\* should_skip without the running_downgrade disjunct
should_skip_NoDowngrade(current, status, force) ==
    IF force THEN FALSE
    ELSE /\ current \in {"Completed", "Failed", "Cancelled", "RolledBack", "RollingBack"}
         /\ status \in {"Pending", "Testing", "Ready", "Running"}

\* should_skip that does not look at force
should_skip_IgnoresForce(current, status, force) ==
    \/ /\ current \in {"Completed", "Failed", "Cancelled", "RolledBack", "RollingBack"}
       /\ status \in {"Pending", "Testing", "Ready", "Running"}
    \/ current = "Running" /\ status \in {"Pending", "Testing", "Ready"}

\* should_skip, main.rs:1898-1922
should_skip(current, status, force) ==
    IF force THEN FALSE
    ELSE LET current_is_protected ==
                 current \in {"Completed", "Failed", "Cancelled", "RolledBack", "RollingBack"}
             new_is_non_terminal ==
                 status \in {"Pending", "Testing", "Ready", "Running"}
             is_pre_running == status \in {"Pending", "Testing", "Ready"}
             running_downgrade == current = "Running" /\ is_pre_running
         IN (current_is_protected /\ new_is_non_terminal) \/ running_downgrade

\* HandleEvent with the failure arms also marking the migration Failed
HandleEvent_ErrorFailsMigration(ms, ev) ==
    CASE ev.type = "SetupProgress" ->
             [ms EXCEPT !.setup_step = Step(ev.tag)]
      [] ev.type = "ApiCallUpdate" ->
             update_api_call(ms, ev.index, [tag |-> ev.tag, msg |-> ev.msg])
      [] ev.type = "SetupComplete" ->
             [ms EXCEPT !.auth_token = TRUE,
                        !.source_endpoint_id = TRUE,
                        !.dest_endpoint_id = TRUE,
                        !.interlay_id = TRUE,
                        !.migration_id = TRUE,
                        !.setup_step = Step("Ready"),
                        !.last_error = "-"]
      [] ev.type = "SetupFailed" ->
             [ms EXCEPT !.setup_step = FailedWith(ev.msg), !.last_error = ev.msg]
      [] ev.type = "MigrationTriggered" ->
             [ms EXCEPT !.status = "Running", !.last_error = "-"]
      [] ev.type = "MigrationStatusUpdate" ->
             IF should_skip(ms.status, ev.tag, ev.force)
             THEN ms
             ELSE [ms EXCEPT !.status = ev.tag]
      [] ev.type \in {"MigrationError", "TrafficUpdateFailed", "MigrationCompleteFailed",
                      "MigrationCancelFailed", "MigrationRollbackFailed"} ->
             [ms EXCEPT !.last_error = ev.msg, !.status = "Failed"]
      [] ev.type = "TrafficUpdated" ->
             [ms EXCEPT !.read_percentage = ev.index]
      [] ev.type = "MigrationCompleted" ->
             [ms EXCEPT !.status = "Completed", !.last_error = "-"]
      [] ev.type = "MigrationCancelled" ->
             [ms EXCEPT !.status = "Cancelled", !.last_error = "-"]
      [] ev.type = "MigrationRolledBack" ->
             [ms EXCEPT !.status = "RollingBack", !.last_error = "-"]
      [] OTHER -> ms

\* One iteration of the while-let loop: the match on the received event.
\* log_debug only appends to the debug log, which no handler reads; the log
\* is not part of this state.
HandleEvent(ms, ev) ==
    CASE ev.type = "SetupProgress" ->
             [ms EXCEPT !.setup_step = Step(ev.tag)]
      [] ev.type = "ApiCallUpdate" ->
             update_api_call(ms, ev.index, [tag |-> ev.tag, msg |-> ev.msg])
      [] ev.type = "SetupComplete" ->
             [ms EXCEPT !.auth_token = TRUE,
                        !.source_endpoint_id = TRUE,
                        !.dest_endpoint_id = TRUE,
                        !.interlay_id = TRUE,
                        !.migration_id = TRUE,
                        !.setup_step = Step("Ready"),
                        !.last_error = "-"]
      [] ev.type = "SetupFailed" ->
             [ms EXCEPT !.setup_step = FailedWith(ev.msg), !.last_error = ev.msg]
      [] ev.type = "MigrationTriggered" ->
             [ms EXCEPT !.status = "Running", !.last_error = "-"]
      [] ev.type = "MigrationStatusUpdate" ->
             IF should_skip(ms.status, ev.tag, ev.force)
             THEN ms
             ELSE [ms EXCEPT !.status = ev.tag]
      [] ev.type \in {"MigrationError", "TrafficUpdateFailed", "MigrationCompleteFailed",
                      "MigrationCancelFailed", "MigrationRollbackFailed"} ->
             [ms EXCEPT !.last_error = ev.msg]
      [] ev.type = "TrafficUpdated" ->
             [ms EXCEPT !.read_percentage = ev.index]
      [] ev.type = "MigrationCompleted" ->
             [ms EXCEPT !.status = "Completed", !.last_error = "-"]
      [] ev.type = "MigrationCancelled" ->
             [ms EXCEPT !.status = "Cancelled", !.last_error = "-"]
      [] ev.type = "MigrationRolledBack" ->
             [ms EXCEPT !.status = "RollingBack", !.last_error = "-"]
      [] OTHER -> ms

\* try_recv returned an event: handle it
ProcessApiEvent ==
    /\ chan # <<>>
    /\ migration_state' = HandleEvent(migration_state, Head(chan))
    /\ last_event' = [ev |-> Head(chan), old |-> migration_state.status]
    /\ rollback_response' =
           IF /\ Head(chan).type = "MigrationStatusUpdate"
              /\ Head(chan).src = "rollback"
              /\ rollback_response = "requested"
           THEN Head(chan).tag
           ELSE rollback_response
    /\ chan' = Tail(chan)
    /\ UNCHANGED <<tasks, setup_runs, hvars, tvars, avars, xvars>>

(***************************************************************************)
(* Tasks.  A task is [kind, pc, step, val, how, mode]:                     *)
(*   pc    the await it is suspended at                                    *)
(*   step  setup: index of the API call in progress                        *)
(*   val   the error message or migration status it is about to send       *)
(*   how   what the requests of the current step (setup) or the last poll  *)
(*         (migrate) returned                                              *)
(*   mode  setup: the MigrationMode passed at spawn                        *)
(***************************************************************************)
Task(kind, pc) == [kind |-> kind, pc |-> pc, step |-> 0, val |-> "-", how |-> "-", mode |-> "-"]

Running1(t) == SetToBag({t})
TasksOf(kind) == {t \in BagToSet(tasks) : t.kind = kind}

\* tx.send(ev).await by task t, which continues as t2 (or returns: Done)
Done == Task("-", "done")
Continue(t, t2) ==
    IF t2 = Done THEN tasks (-) Running1(t) ELSE (tasks (-) Running1(t)) (+) Running1(t2)

Send(t, ev, t2) ==
    /\ Len(chan) < ChanCap
    /\ chan' = Append(chan, ev)
    /\ tasks' = Continue(t, t2)
    /\ last_event' = NoEvent
    /\ UNCHANGED <<migration_state, rollback_response, setup_runs, hvars, tvars, avars, xvars>>

\* an await on an HTTP exchange completes; task t continues as t2
Await(t, t2) ==
    /\ tasks' = Continue(t, t2)
    /\ last_event' = NoEvent
    /\ UNCHANGED <<migration_state, chan, rollback_response, setup_runs, hvars, tvars, avars, xvars>>

(***************************************************************************)
(* run_migration_setup, main.rs:1079-1520                                  *)
(***************************************************************************)
\* How an HTTP exchange of the setup can end: 2xx; an Err whose text contains
\* "409", "already exists" or "Conflict" (for ADD_INTERLAY also "already has
\* an active migration"); any other Err
HttpOutcomes == {"ok", "conflict", "error"}

\* the steps whose conflict branch fetches the existing resource
\* (main.rs:1209, 1276, 1339, 1404)
StepsWithGet == {CREATE_SOURCE_EP, CREATE_DEST_EP, CREATE_INTERLAY, CREATE_MIGRATION}

\* SetupOnCreate with the Err arm of a step falling into its conflict arm: every
\* Err is answered like "already exists"
SetupOnCreate_ErrorSkips(t, outcome) ==
    CASE outcome = "ok" -> [t EXCEPT !.pc = "success", !.how = "ok"]
      [] outcome = "conflict" /\ t.step \in StepsWithGet ->
             [t EXCEPT !.pc = IF t.step = CREATE_MIGRATION THEN "dbg_exists" ELSE "get",
                       !.how = "conflict"]
      [] outcome = "conflict" /\ t.step \in {CREATE_ORG, ADD_INTERLAY} ->
             [t EXCEPT !.pc = "skipped", !.how = "conflict"]
      [] outcome = "conflict" /\ t.step = LOGIN ->
             [t EXCEPT !.pc = "failed", !.how = "conflict", !.val = "conflict"]
      [] OTHER -> [t EXCEPT !.pc = "skipped", !.how = "error"]

\* SetupOnCreate with the conflict arm of every step written like that of
\* create-organization: Skipped at once, the existing resource never fetched
SetupOnCreate_NoGet(t, outcome) ==
    CASE outcome = "ok" -> [t EXCEPT !.pc = "success", !.how = "ok"]
      [] outcome = "conflict" /\ t.step # LOGIN ->
             [t EXCEPT !.pc = "skipped", !.how = "conflict"]
      [] outcome = "conflict" /\ t.step = LOGIN ->
             [t EXCEPT !.pc = "failed", !.how = "conflict", !.val = "conflict"]
      [] OTHER -> [t EXCEPT !.pc = "failed", !.how = "error", !.val = "error"]

\* The match on the result of the create request of a step:
\* main.rs:1112-1141 (org), 1152-1172 (login), 1188-1241, 1255-1308,
\* 1322-1371, 1389-1440, 1453-1486 (add interlay)
SetupOnCreate(t, outcome) ==
    CASE outcome = "ok" -> [t EXCEPT !.pc = "success", !.how = "ok"]
      [] outcome = "conflict" /\ t.step \in StepsWithGet ->
             [t EXCEPT !.pc = IF t.step = CREATE_MIGRATION THEN "dbg_exists" ELSE "get",
                       !.how = "conflict"]
      [] outcome = "conflict" /\ t.step \in {CREATE_ORG, ADD_INTERLAY} ->
             [t EXCEPT !.pc = "skipped", !.how = "conflict"]
      [] outcome = "conflict" /\ t.step = LOGIN ->
             [t EXCEPT !.pc = "failed", !.how = "conflict", !.val = "conflict"]
      [] OTHER -> [t EXCEPT !.pc = "failed", !.how = "error", !.val = "error"]

\* The match on the result of get_endpoint / get_interlay / get_migration in
\* the conflict branch (main.rs:1209-1229, 1276-1296, 1339-1359, 1404-1428)
SetupOnGet(t, ok) ==
    IF ok
    THEN [t EXCEPT !.pc = IF t.step = CREATE_MIGRATION THEN "dbg_existing" ELSE "skipped",
                   !.how = "conflict_get_ok"]
    ELSE [t EXCEPT !.pc = "failed", !.how = "conflict_get_err", !.val = "get_error"]

\* SetupNextStep that leaves out the last step: SetupComplete follows
\* create-migration
SetupNextStep_SkipsAddInterlay(t) ==
    IF t.step < CREATE_MIGRATION
    THEN [t EXCEPT !.pc = "progress", !.step = t.step + 1, !.how = "-"]
    ELSE [t EXCEPT !.pc = "complete", !.how = "-"]

\* where the task goes once a step's Success / Skipped has been sent
SetupNextStep(t) ==
    IF t.step < ADD_INTERLAY
    THEN [t EXCEPT !.pc = "progress", !.step = t.step + 1, !.how = "-"]
    ELSE [t EXCEPT !.pc = "complete", !.how = "-"]

\* where the task goes once SetupFailed has been sent: return (main.rs:1138)
SetupAfterFailed(t) == Done

SetupSendPcs ==
    {"progress", "inprogress", "dbg_exists", "dbg_existing", "success", "skipped",
     "failed", "setup_failed"}

\* the event sent at each send().await of steps 1-7
SetupEvent(t) ==
    CASE t.pc = "progress" -> SetupProgress(StepNames[t.step + 1], "setup")
      [] t.pc = "inprogress" -> ApiCallUpdate(t.step, Step("InProgress"), "setup")
      [] t.pc = "success" -> ApiCallUpdate(t.step, Step("Success"), "setup")
      [] t.pc = "skipped" -> ApiCallUpdate(t.step, Step("Skipped"), "setup")
      [] t.pc = "failed" -> ApiCallUpdate(t.step, FailedWith(t.val), "setup")
      [] t.pc = "setup_failed" -> SetupFailed(t.val, "setup")
      [] OTHER -> Event("DebugLog", "setup")

SetupAfterSend(t) ==
    CASE t.pc = "progress" -> [t EXCEPT !.pc = "inprogress"]
      [] t.pc = "inprogress" -> [t EXCEPT !.pc = "create"]
      [] t.pc = "dbg_exists" -> [t EXCEPT !.pc = "get"]
      [] t.pc = "dbg_existing" -> [t EXCEPT !.pc = "skipped"]
      [] t.pc \in {"success", "skipped"} -> SetupNextStep(t)
      [] t.pc = "failed" -> [t EXCEPT !.pc = "setup_failed"]
      [] OTHER -> SetupAfterFailed(t)

SetupSend ==
    \E t \in TasksOf("setup") :
        /\ t.pc \in SetupSendPcs
        /\ Send(t, SetupEvent(t), SetupAfterSend(t))

\* the create request of the step returns
SetupCreate ==
    \E t \in TasksOf("setup") : \E outcome \in HttpOutcomes :
        /\ t.pc = "create"
        /\ Await(t, SetupOnCreate(t, outcome))

\* the GET of the conflict branch returns
SetupGet ==
    \E t \in TasksOf("setup") : \E ok \in BOOLEAN :
        /\ t.pc = "get"
        /\ Await(t, SetupOnGet(t, ok))

\* main.rs:1488-1519: SetupComplete, SetupProgress(Ready), then the status sync
SetupTailPcs == {"complete", "ready", "dbg_fetch", "dbg_status", "dbg_fetch_failed", "status"}

\* SetupTailEvent with the two sends of main.rs:1488-1500 in the other order:
\* SetupProgress(Ready) first, SetupComplete after it
SetupTailEvent_ReadyFirst(t) ==
    CASE t.pc = "complete" -> SetupProgress("Ready", "setup")
      [] t.pc = "ready" -> Event("SetupComplete", "setup")
      [] t.pc = "status" -> MigrationStatusUpdate(t.val, TRUE, "setup")
      [] OTHER -> Event("DebugLog", "setup")

SetupTailEvent(t) ==
    CASE t.pc = "complete" -> Event("SetupComplete", "setup")
      [] t.pc = "ready" -> SetupProgress("Ready", "setup")
      [] t.pc = "status" -> MigrationStatusUpdate(t.val, TRUE, "setup")
      [] OTHER -> Event("DebugLog", "setup")

SetupTailAfterSend(t) ==
    CASE t.pc = "complete" -> [t EXCEPT !.pc = "ready"]
      [] t.pc = "ready" -> [t EXCEPT !.pc = "dbg_fetch"]
      [] t.pc = "dbg_fetch" -> [t EXCEPT !.pc = "sync"]
      [] t.pc \in {"dbg_status", "dbg_fetch_failed"} -> [t EXCEPT !.pc = "status"]
      [] OTHER -> Done

SetupTailSend ==
    \E t \in TasksOf("setup") :
        /\ t.pc \in SetupTailPcs
        /\ Send(t, SetupTailEvent(t), SetupTailAfterSend(t))

\* client.get_migration returns (main.rs:1504-1518).  On Ok the status field
\* of the response is parsed; on Err the status kept from the create/get
\* response of step 6 is parsed instead.  That value has no other use, so it
\* is drawn here.
SetupTailSync ==
    \E t \in TasksOf("setup") : \E ok \in BOOLEAN : \E s \in ApiStatusStrings :
        /\ t.pc = "sync"
        /\ Await(t, [t EXCEPT !.pc = IF ok THEN "dbg_status" ELSE "dbg_fetch_failed",
                              !.val = parse_migration_status(s)])

\* App::handle_setup_key, main.rs:2024-2050, explored while fewer than limit
\* setup tasks run
handle_setup_key_while(limit) ==
    /\ migration_state.setup_step = Step("NotStarted")
    /\ Cardinality(TasksOf("setup")) = BagCardinality(tasks)
    /\ BagCardinality(tasks) < limit
    /\ tasks' = tasks (+) Running1([Task("setup", "progress") EXCEPT !.mode = migration_state.mode])
    /\ last_event' = NoEvent
    /\ setup_runs' = setup_runs + 1
    /\ UNCHANGED <<migration_state, chan, rollback_response, hvars, tvars, avars, xvars>>

handle_setup_key == handle_setup_key_while(MaxSetupTasks)

\* App::handle_toggle_mode, main.rs:2052-2058
handle_toggle_mode ==
    /\ migration_state.setup_step = Step("NotStarted")
    /\ migration_state' = [migration_state EXCEPT !.mode = toggle(migration_state.mode)]
    /\ last_event' = NoEvent
    /\ UNCHANGED <<chan, tasks, rollback_response, setup_runs, hvars, tvars, avars, xvars>>

\* App::new_with_clients (main.rs:1787-1825) and the channel of main.rs:2924
AppNew ==
    /\ migration_state = MigrationStateNew
    /\ chan = <<>>
    /\ tasks = EmptyBag
    /\ last_event = NoEvent
    /\ rollback_response = "-"
    /\ setup_runs = 0

NextSetup ==
    \/ handle_setup_key
    \/ handle_toggle_mode
    \/ SetupSend
    \/ SetupCreate
    \/ SetupGet
    \/ SetupTailSend
    \/ SetupTailSync
    \/ ProcessApiEvent

(***************************************************************************)
(* The start of setup with repeated 's' keypresses: up to MaxRaceTasks     *)
(* setup tasks, each followed through its steps 0 .. MaxRaceStep.          *)
(***************************************************************************)
RaceWindow == \A t \in TasksOf("setup") : t.step <= MaxRaceStep

RaceSetupKey == handle_setup_key_while(MaxRaceTasks)
RaceSend == RaceWindow /\ SetupSend
RaceCreate == RaceWindow /\ SetupCreate

NextSetupRace ==
    \/ RaceSetupKey
    \/ handle_toggle_mode
    \/ RaceSend
    \/ RaceCreate
    \/ ProcessApiEvent

(***************************************************************************)
(* Migration commands, main.rs:292-323 and 1998-2103                       *)
(***************************************************************************)
\* MigrationState::can_migrate, main.rs:292-298
can_migrate(ms) == is_ready(ms) /\ ms.status \in {"Pending", "Testing", "Ready"}

\* MigrationState::can_complete, main.rs:306-308
can_complete(ms) == is_ready(ms) /\ ms.status = "Running"

\* can_cancel without the Paused alternative
can_cancel_RunningOnly(ms) == is_ready(ms) /\ ms.status = "Running"

\* MigrationState::can_cancel, main.rs:310-313
can_cancel(ms) == is_ready(ms) /\ ms.status \in {"Running", "Paused"}

\* can_rollback that also accepts a Running migration
can_rollback_AlsoRunning(ms) ==
    /\ is_ready(ms)
    /\ ms.interlay_id
    /\ ms.status \in {"Completed", "Failed", "Cancelled", "PartialFailure", "Running"}

\* MigrationState::can_rollback, main.rs:315-323
can_rollback(ms) ==
    /\ is_ready(ms)
    /\ ms.interlay_id
    /\ ms.status \in {"Completed", "Failed", "Cancelled", "PartialFailure"}

\* self.runtime.spawn(task)
Spawn(t) ==
    /\ BagCardinality(tasks) < MaxTasks
    /\ tasks' = tasks (+) Running1(t)
    /\ last_event' = NoEvent
    /\ rollback_response' =
           IF /\ t.kind = "rollback"
              /\ TasksOf("rollback") = {}
              /\ \A i \in DOMAIN chan : chan[i].src # "rollback"
           THEN "requested"
           ELSE "-"
    /\ UNCHANGED <<migration_state, chan, setup_runs, hvars, tvars, avars, xvars>>

\* App::handle_migrate_key, main.rs:1998-2009
handle_migrate_key == can_migrate(migration_state) /\ Spawn(Task("trigger", "post"))

\* App::handle_refresh_key, main.rs:2011-2022
handle_refresh_key == is_ready(migration_state) /\ Spawn(Task("refresh", "dbg_post"))

\* App::handle_complete_key, main.rs:2060-2071
handle_complete_key == can_complete(migration_state) /\ Spawn(Task("complete", "post"))

\* App::handle_cancel_key, main.rs:2073-2084
handle_cancel_key == can_cancel(migration_state) /\ Spawn(Task("cancel", "post"))

\* App::handle_rollback_key, main.rs:2086-2103
handle_rollback_key == can_rollback(migration_state) /\ Spawn(Task("rollback", "dbg_post"))

(***************************************************************************)
(* trigger_migration_task, main.rs:1522-1564.  val keeps the status of the *)
(* last successful poll while the task sleeps and polls again.             *)
(* how is "polling" once the trigger request has succeeded.                *)
(***************************************************************************)
\* the match that ends the polling loop, with Paused taken for a final state
IsPollTerminal_StopsOnPaused(status) ==
    status \in {"Completed", "Failed", "Cancelled", "RolledBack", "Paused"}

\* the match that ends the polling loop, with the RolledBack pattern missing
IsPollTerminal_NoRolledBack(status) == status \in {"Completed", "Failed", "Cancelled"}

\* the match that ends the polling loop, main.rs:1545-1551
IsPollTerminal(status) == status \in {"Completed", "Failed", "Cancelled", "RolledBack"}

\* the match on client.trigger_migration, main.rs:1532-1563
TriggerOnPost(t, ok) ==
    IF ok
    THEN [t EXCEPT !.pc = "triggered", !.how = "polling"]
    ELSE [t EXCEPT !.pc = "error", !.val = "error"]

\* the match on client.get_migration in the loop, main.rs:1540-1557
TriggerOnPoll(t, ok, s) ==
    IF ok
    THEN [t EXCEPT !.pc = "status", !.val = parse_migration_status(s)]
    ELSE [t EXCEPT !.pc = "error", !.val = "error"]

TriggerEvent(t) ==
    CASE t.pc = "triggered" -> Event("MigrationTriggered", "trigger")
      [] t.pc = "status" -> MigrationStatusUpdate(t.val, FALSE, "trigger")
      [] OTHER -> ErrorEvent("MigrationError", t.val, "trigger")

TriggerAfterSend(t) ==
    CASE t.pc = "triggered" -> [t EXCEPT !.pc = "poll"]
      [] t.pc = "status" -> IF IsPollTerminal(t.val) THEN Done ELSE [t EXCEPT !.pc = "poll"]
      [] OTHER -> Done

\* POST /migrations/{id}/migrate returns
TriggerPost ==
    \E t \in TasksOf("trigger") : \E ok \in BOOLEAN :
        /\ t.pc = "post"
        /\ Await(t, TriggerOnPost(t, ok))

\* the one-second sleep is over and GET /migrations/{id} returns
TriggerPoll ==
    \E t \in TasksOf("trigger") : \E ok \in BOOLEAN : \E s \in ApiStatusStrings :
        /\ t.pc = "poll"
        /\ Await(t, TriggerOnPoll(t, ok, s))

TriggerSend ==
    \E t \in TasksOf("trigger") :
        /\ t.pc \in {"triggered", "status", "error"}
        /\ Send(t, TriggerEvent(t), TriggerAfterSend(t))

(***************************************************************************)
(* refresh_migration_task, main.rs:1566-1596                               *)
(***************************************************************************)
\* the if-let on client.refresh_migration, main.rs:1577-1581
RefreshOnPost(t, ok) ==
    IF ok THEN [t EXCEPT !.pc = "dbg_get"] ELSE [t EXCEPT !.pc = "dbg_failed", !.val = "error"]

\* the match on client.get_migration, main.rs:1585-1595
RefreshOnGet(t, ok, s) ==
    IF ok
    THEN [t EXCEPT !.pc = "dbg_status", !.val = parse_migration_status(s)]
    ELSE [t EXCEPT !.pc = "dbg_failed", !.val = "error"]

RefreshEvent(t) ==
    CASE t.pc = "status" -> MigrationStatusUpdate(t.val, TRUE, "refresh")
      [] t.pc = "error" -> ErrorEvent("MigrationError", t.val, "refresh")
      [] OTHER -> Event("DebugLog", "refresh")

RefreshAfterSend(t) ==
    CASE t.pc = "dbg_post" -> [t EXCEPT !.pc = "post"]
      [] t.pc = "dbg_get" -> [t EXCEPT !.pc = "get"]
      [] t.pc = "dbg_status" -> [t EXCEPT !.pc = "status"]
      [] t.pc = "dbg_failed" -> [t EXCEPT !.pc = "error"]
      [] OTHER -> Done

RefreshPost ==
    \E t \in TasksOf("refresh") : \E ok \in BOOLEAN :
        /\ t.pc = "post"
        /\ Await(t, RefreshOnPost(t, ok))

RefreshGet ==
    \E t \in TasksOf("refresh") : \E ok \in BOOLEAN : \E s \in ApiStatusStrings :
        /\ t.pc = "get"
        /\ Await(t, RefreshOnGet(t, ok, s))

RefreshSend ==
    \E t \in TasksOf("refresh") :
        /\ t.pc \in {"dbg_post", "dbg_get", "dbg_status", "dbg_failed", "status", "error"}
        /\ Send(t, RefreshEvent(t), RefreshAfterSend(t))

(***************************************************************************)
(* complete_migration_task (main.rs:1622-1641) and cancel_migration_task   *)
(* (main.rs:1643-1662)                                                     *)
(***************************************************************************)
\* the match on client.complete_migration / client.cancel_migration
CommandOnPost(t, ok) ==
    IF ok
    THEN [t EXCEPT !.pc = "done", !.val = IF t.kind = "complete" THEN "Completed" ELSE "Cancelled"]
    ELSE [t EXCEPT !.pc = "error", !.val = "error"]

CommandEvent(t) ==
    CASE t.pc = "done" ->
             Event(IF t.kind = "complete" THEN "MigrationCompleted" ELSE "MigrationCancelled",
                   t.kind)
      [] t.pc = "status" -> MigrationStatusUpdate(t.val, TRUE, t.kind)
      [] OTHER ->
             ErrorEvent(IF t.kind = "complete" THEN "MigrationCompleteFailed"
                                               ELSE "MigrationCancelFailed",
                        t.val, t.kind)

CommandAfterSend(t) == IF t.pc = "done" THEN [t EXCEPT !.pc = "status"] ELSE Done

CompleteCall ==
    \E t \in TasksOf("complete") : \E ok \in BOOLEAN :
        /\ t.pc = "post"
        /\ Await(t, CommandOnPost(t, ok))

CompleteSend ==
    \E t \in TasksOf("complete") :
        /\ t.pc \in {"done", "status", "error"}
        /\ Send(t, CommandEvent(t), CommandAfterSend(t))

CancelCall ==
    \E t \in TasksOf("cancel") : \E ok \in BOOLEAN :
        /\ t.pc = "post"
        /\ Await(t, CommandOnPost(t, ok))

CancelSend ==
    \E t \in TasksOf("cancel") :
        /\ t.pc \in {"done", "status", "error"}
        /\ Send(t, CommandEvent(t), CommandAfterSend(t))

(***************************************************************************)
(* rollback_migration_task, main.rs:1664-1695                              *)
(***************************************************************************)
\* the match on client.rollback_interlay; the response's status is a String
RollbackOnPost(t, ok, s) ==
    IF ok
    THEN [t EXCEPT !.pc = "dbg_response", !.val = parse_migration_status(s)]
    ELSE [t EXCEPT !.pc = "dbg_failed", !.val = "error"]

RollbackEvent(t) ==
    CASE t.pc = "rolled_back" -> Event("MigrationRolledBack", "rollback")
      [] t.pc = "status" -> MigrationStatusUpdate(t.val, TRUE, "rollback")
      [] t.pc = "error" -> ErrorEvent("MigrationRollbackFailed", t.val, "rollback")
      [] OTHER -> Event("DebugLog", "rollback")

RollbackAfterSend(t) ==
    CASE t.pc = "dbg_post" -> [t EXCEPT !.pc = "post"]
      [] t.pc = "dbg_response" -> [t EXCEPT !.pc = "rolled_back"]
      [] t.pc = "rolled_back" -> [t EXCEPT !.pc = "status"]
      [] t.pc = "dbg_failed" -> [t EXCEPT !.pc = "error"]
      [] OTHER -> Done

RollbackCall ==
    \E t \in TasksOf("rollback") : \E ok \in BOOLEAN : \E s \in ApiStatusStrings \ {"None"} :
        /\ t.pc = "post"
        /\ Await(t, RollbackOnPost(t, ok, s))

RollbackSend ==
    \E t \in TasksOf("rollback") :
        /\ t.pc \in {"dbg_post", "dbg_response", "rolled_back", "dbg_failed", "status", "error"}
        /\ Send(t, RollbackEvent(t), RollbackAfterSend(t))

(***************************************************************************)
(* The application once setup has gone through: the state of SpecSetup in  *)
(* which every step succeeded, the task has sent SetupComplete             *)
(* (main.rs:1488-1497) and the event loop has processed it.  The commands  *)
(* below are guarded by is_ready, which holds from this state on.          *)
(***************************************************************************)
RunStart ==
    /\ migration_state =
           HandleEvent([MigrationStateNew EXCEPT
                            !.setup_step = Step(StepNames[ADD_INTERLAY + 1]),
                            !.api_calls = [i \in CallIndices |-> Step("Success")]],
                       Event("SetupComplete", "setup"))
    /\ chan = <<>>
    /\ tasks = Running1([Task("setup", "ready") EXCEPT !.step = ADD_INTERLAY, !.mode = "BigBang"])
    /\ last_event = [ev |-> Event("SetupComplete", "setup"), old |-> "NotSetup"]
    /\ rollback_response = "-"
    /\ setup_runs = 1

NextRun ==
    \/ SetupTailSend
    \/ SetupTailSync
    \/ ProcessApiEvent
    \/ handle_migrate_key
    \/ handle_refresh_key
    \/ handle_complete_key
    \/ handle_cancel_key
    \/ handle_rollback_key
    \/ TriggerPost
    \/ TriggerPoll
    \/ TriggerSend
    \/ RefreshPost
    \/ RefreshGet
    \/ RefreshSend
    \/ CompleteCall
    \/ CompleteSend
    \/ CancelCall
    \/ CancelSend
    \/ RollbackCall
    \/ RollbackSend

(***************************************************************************)
(* Canary traffic: main.rs:300-304, 2106-2135 and update_traffic_task,     *)
(* main.rs:1598-1620.  A traffic task keeps the percentage it requests, and *)
(* then the new_percentage of the response, in step.                       *)
(***************************************************************************)
Percentages == 0 .. PctSteps

\* MigrationState::can_update_traffic, main.rs:300-304
can_update_traffic(ms) == is_ready(ms) /\ ms.mode = "Canary" /\ ms.status = "Running"

\* App::update_canary_traffic, main.rs:2120-2135
update_canary_traffic(new_percentage) ==
    Spawn([Task("traffic", "patch") EXCEPT !.step = new_percentage])

\* App::handle_traffic_increase, main.rs:2106-2111
handle_traffic_increase ==
    /\ can_update_traffic(migration_state)
    /\ update_canary_traffic(Min2(migration_state.read_percentage + 1, PctSteps))

\* App::handle_traffic_decrease, main.rs:2113-2118
handle_traffic_decrease ==
    /\ can_update_traffic(migration_state)
    /\ update_canary_traffic(Max2(migration_state.read_percentage - 1, 0))

\* the match on client.update_traffic_split, main.rs:1609-1619
TrafficOnPatch(t, ok, p) ==
    IF ok THEN [t EXCEPT !.pc = "updated", !.step = p] ELSE [t EXCEPT !.pc = "error", !.val = "error"]

TrafficEvent(t) ==
    IF t.pc = "updated"
    THEN [Event("TrafficUpdated", "traffic") EXCEPT !.index = t.step]
    ELSE ErrorEvent("TrafficUpdateFailed", t.val, "traffic")

\* PATCH /migrations/{id}/traffic returns; the response names the percentage
\* the server has set
TrafficCall ==
    \E t \in TasksOf("traffic") : \E ok \in BOOLEAN : \E p \in Percentages :
        /\ t.pc = "patch"
        /\ Await(t, TrafficOnPatch(t, ok, p))

TrafficSend ==
    \E t \in TasksOf("traffic") :
        /\ t.pc \in {"updated", "error"}
        /\ Send(t, TrafficEvent(t), Done)

(***************************************************************************)
(* The UI thread taken alone (SpecUI): the states migration_state can hold *)
(* and the failure events that can be waiting in the channel.              *)
(***************************************************************************)
\* before SetupComplete: nothing started; the first SetupProgress processed;
\* the first step failed (main.rs:1130-1138 processed by main.rs:1841-1887)
PreSetupStates ==
    {[MigrationStateNew EXCEPT !.mode = m] : m \in {"BigBang", "Canary"}}
    \cup {[MigrationStateNew EXCEPT !.mode = m, !.setup_step = Step(StepNames[CREATE_ORG + 1])] :
              m \in {"BigBang", "Canary"}}
    \cup {[MigrationStateNew EXCEPT !.mode = m,
                                    !.setup_step = FailedWith("error"),
                                    !.last_error = "error",
                                    !.api_calls[CREATE_ORG] = FailedWith("error")] :
              m \in {"BigBang", "Canary"}}

\* after SetupComplete: any status the server has reported; the percentage has
\* left its initial value only in Canary mode, once the status was Running
PostSetupStates ==
    {[HandleEvent([MigrationStateNew EXCEPT
                       !.setup_step = Step(StepNames[ADD_INTERLAY + 1]),
                       !.api_calls = [i \in CallIndices |-> Step("Success")]],
                  Event("SetupComplete", "setup"))
         EXCEPT !.setup_step = Step("Ready"), !.mode = m, !.status = st,
                !.read_percentage = p, !.last_error = e] :
        m \in {"BigBang", "Canary"}, st \in MigrationStatuses, p \in Percentages,
        e \in {"-", "error"}}

UiStates ==
    PreSetupStates
    \cup {ms \in PostSetupStates :
              ms.read_percentage # MigrationStateNew.read_percentage =>
                  (ms.mode = "Canary" /\ ms.status # "NotSetup")}

\* the failure events of the tasks that SpecUI does not run
FailureEvents ==
    {ErrorEvent("MigrationError", "error", "trigger"),
     ErrorEvent("MigrationError", "error", "refresh"),
     ErrorEvent("MigrationCompleteFailed", "error", "complete"),
     ErrorEvent("MigrationCancelFailed", "error", "cancel"),
     ErrorEvent("MigrationRollbackFailed", "error", "rollback")}

UiStart ==
    /\ migration_state \in UiStates
    /\ chan \in {<<>>} \cup
                (IF is_ready(migration_state) /\ migration_state.status # "NotSetup"
                 THEN {<<ev>> : ev \in FailureEvents}
                 ELSE {})
    /\ tasks = EmptyBag
    /\ last_event = NoEvent
    /\ rollback_response = "-"
    /\ setup_runs = IF migration_state.setup_step = Step("NotStarted") THEN 0 ELSE 1

NextUI ==
    \/ ProcessApiEvent
    \/ handle_migrate_key
    \/ handle_refresh_key
    \/ handle_complete_key
    \/ handle_cancel_key
    \/ handle_rollback_key
    \/ handle_traffic_increase
    \/ handle_traffic_decrease
    \/ TrafficCall
    \/ TrafficSend


(***************************************************************************)
(* analytics-demo: the cache layer (database.rs:478-804, storage.rs:120-   *)
(* 313), the validator (validation.rs) and the query workers               *)
(* (workers.rs:228-478).  One organization; every query kind has one key.  *)
(* A call is one step: the outcome of each Redis exchange it makes is an   *)
(* input of the step.                                                      *)
(***************************************************************************)
\* key absent: GET answers nil
Nil == "nil"

\* the query kinds of execute_diverse_query, workers.rs:294-334
QueryKinds ==
    {"analytics_overview", "hourly_metrics", "top_pages", "event_distribution",
     "user_activity", "page_performance", "realtime_stats"}

\* DataGenerator::cache_key_* as called at workers.rs:337-462, a format! of
\* "analytics:", the organization and the kind; cache_key_realtime_counter of
\* workers.rs:700
cache_key(kind) == "analytics:" \o kind
CacheKeys == {cache_key(kind) : kind \in QueryKinds}
CounterKeys == {"analytics:realtime:minute:count"}
Keys == CacheKeys \cup CounterKeys

\* the keys that the direct callers of get / set_batch_json / del_batch use and
\* that another client of the server overwrites
HotKeys == {cache_key("analytics_overview"), cache_key("realtime_stats")}

\* the values the workers cache, and serde_json::to_string of each
Data == {"data"}
to_string(d) == "{" \o d \o "}"

\* a stored string that is not JSON: a truncated document
Garbage == "{data"

\* the documents serde_json reads back: the cached values and the payloads
\* written through the storage backends
Documents == Data \cup {"p", "q"}

\* serde_json::from_str
JsonStrings == {to_string(d) : d \in Data}
from_str(json_str) ==
    IF \E d \in Documents : to_string(d) = json_str
    THEN [tag |-> "Ok", value |-> CHOOSE d \in Documents : to_string(d) = json_str]
    ELSE [tag |-> "Err", value |-> "parse"]

StoredStrings == JsonStrings \cup {Garbage}

\* Result<Option<T>> and Result<()>
OkSome(v) == [tag |-> "Some", value |-> v]
OkNone == [tag |-> "None", value |-> "-"]
OkUnit == [tag |-> "Ok", value |-> "-"]
Err(e) == [tag |-> "Err", value |-> e]

\* a Redis command sent to the server
Cmd(name, key) == [cmd |-> name, key |-> key]

\* AppMetrics::record_cache_operation (metrics.rs:405-407) and the
\* record_validation_* calls of the validator: one observation
Metric(operation, result) == [operation |-> operation, result |-> result]

\* what a call did: return value, commands sent, metrics recorded, store after
Outcome(ret, cmds, events, st) == [ret |-> ret, cmds |-> cmds, events |-> events, store |-> st]

\* f64::clamp(0.0, 1.0) in DataValidator::new, validation.rs:21-24
DataValidator_new(rate) == Max2(0, Min2(rate, RateSteps))

\* what Config.validation_sample_rate can be set to: below 0, 0, between,
\* 1.0, above 1.0
ConfigRates == (0 - 1) .. (RateSteps + 1)

\* what rand::thread_rng().gen::<f64>() returns: a value in [0, 1)
Draws == 0 .. (RateSteps - 1)

\* should_validate without the test for a rate of 0: the draw decides, and a
\* draw equal to the rate validates
should_validate_DrawsAtZero(rate, draw) ==
    IF rate >= RateSteps THEN TRUE ELSE draw <= rate

\* DataValidator::should_validate, validation.rs:27-36; draw is the PRNG value
should_validate(rate, draw) ==
    IF rate >= RateSteps THEN TRUE
    ELSE IF rate <= 0 THEN FALSE
    ELSE draw < rate

\* DataValidator::validate_json_str, validation.rs:66-99: the metrics event
validate_json_str(data_type, original, retrieved) ==
    IF original = retrieved
    THEN Metric("validation:" \o data_type, "success")
    ELSE LET orig_val == from_str(original)
             ret_val == from_str(retrieved)
         IN  IF orig_val.tag = "Ok" /\ ret_val.tag = "Ok"
             THEN IF orig_val.value = ret_val.value
                  THEN Metric("validation:" \o data_type, "success")
                  ELSE Metric("validation:" \o data_type, "mismatch")
             ELSE Metric("validation:" \o data_type, "parse_error")

\* DataValidator::record_not_found / record_read_error, validation.rs:101-110
record_not_found(data_type) == Metric("validation:" \o data_type, "not_found")
record_read_error(data_type) == Metric("validation:" \o data_type, "read_error")

\* RedisCache::get with the parse error arm answering like a missing key
RedisCache_get_DecodeErrorIsMiss(st, key, redis_ok) ==
    IF redis_ok
    THEN LET value == st[key]
             result == IF value # Nil THEN "hit" ELSE "miss"
         IN  Outcome(IF value # Nil /\ from_str(value).tag = "Ok"
                     THEN OkSome(from_str(value).value)
                     ELSE OkNone,
                     <<Cmd("GET", key)>>, <<Metric("get", result)>>, st)
    ELSE Outcome(Err("redis"), <<Cmd("GET", key)>>, <<Metric("get", "error")>>, st)

\* RedisCache::get, database.rs:515-545.  redis_ok: the GET was answered
RedisCache_get(st, key, redis_ok) ==
    IF redis_ok
    THEN LET value == st[key]
             result == IF value # Nil THEN "hit" ELSE "miss"
         IN  Outcome(IF value # Nil
                     THEN IF from_str(value).tag = "Ok"
                          THEN OkSome(from_str(value).value)
                          ELSE Err(from_str(value).value)
                     ELSE OkNone,
                     <<Cmd("GET", key)>>, <<Metric("get", result)>>, st)
    ELSE Outcome(Err("redis"), <<Cmd("GET", key)>>, <<Metric("get", "error")>>, st)

\* JsonStorage::get, storage.rs:140-170
JsonStorage_get(st, key, redis_ok) ==
    IF redis_ok
    THEN LET value == st[key]
             result == IF value # Nil THEN "hit" ELSE "miss"
         IN  Outcome(IF value # Nil
                     THEN IF from_str(value).tag = "Ok"
                          THEN OkSome(from_str(value).value)
                          ELSE Err(from_str(value).value)
                     ELSE OkNone,
                     <<Cmd("GET", key)>>, <<Metric("get", result)>>, st)
    ELSE Outcome(Err("redis"), <<Cmd("GET", key)>>, <<Metric("get", "error")>>, st)

\* RedisCache::set, database.rs:547-572
RedisCache_set(st, key, value, redis_ok) ==
    IF redis_ok
    THEN Outcome(OkUnit, <<Cmd("SETEX", key)>>, <<Metric("set", "success")>>,
                 [st EXCEPT ![key] = to_string(value)])
    ELSE Outcome(Err("redis"), <<Cmd("SETEX", key)>>, <<Metric("set", "error")>>, st)

\* set_and_validate that never reads back
set_and_validate_NoReadBack(st, key, value, data_type, set_ok, validate, retrieved) ==
    IF set_ok
    THEN Outcome(OkUnit, <<Cmd("SETEX", key)>>, <<Metric("set", "success")>>,
                 [st EXCEPT ![key] = to_string(value)])
    ELSE Outcome(Err("redis"), <<Cmd("SETEX", key)>>, <<Metric("set", "error")>>, st)

\* RedisCache::set_and_validate, database.rs:574-620.  set_ok: the SETEX was
\* answered; validate: what should_validate returned; retrieved: what the
\* read-back GET returned ("error" when it failed), which is also what the key
\* holds after it
set_and_validate(st, key, value, data_type, set_ok, validate, retrieved) ==
    LET json_str == to_string(value)
        written == [st EXCEPT ![key] = json_str]
    IN  IF ~set_ok
        THEN Outcome(Err("redis"), <<Cmd("SETEX", key)>>, <<Metric("set", "error")>>, st)
        ELSE IF validate
        THEN Outcome(OkUnit,
                     <<Cmd("SETEX", key), Cmd("GET", key)>>,
                     <<Metric("set", "success"),
                       CASE retrieved = "error" -> record_read_error(data_type)
                         [] retrieved = Nil -> record_not_found(data_type)
                         [] OTHER -> validate_json_str(data_type, json_str, retrieved)>>,
                     IF retrieved = "error" THEN written ELSE [st EXCEPT ![key] = retrieved])
        ELSE Outcome(OkUnit, <<Cmd("SETEX", key)>>, <<Metric("set", "success")>>, written)

\* SET of every entry of a pipeline
RECURSIVE ApplySets(_, _)
ApplySets(st, entries) ==
    IF entries = <<>>
    THEN st
    ELSE ApplySets([st EXCEPT ![Head(entries)[1]] = Head(entries)[2]], Tail(entries))

\* INCR key 1: the counter as Redis keeps it, a missing key counting as 0
CounterValue(v) == IF v = Nil THEN 0 ELSE CHOOSE n \in 1 .. MaxIncr : ToString(n) = v

RECURSIVE ApplyIncrs(_, _)
ApplyIncrs(st, keys) ==
    IF keys = <<>>
    THEN st
    ELSE ApplyIncrs([st EXCEPT ![Head(keys)] = ToString(CounterValue(st[Head(keys)]) + 1)],
                    Tail(keys))

\* DEL of every key of a pipeline
ApplyDels(st, keys) ==
    [k \in DOMAIN st |-> IF \E i \in DOMAIN keys : keys[i] = k THEN Nil ELSE st[k]]

\* the commands of a pipeline, one per element
PipeCmds(name, keys) == [i \in DOMAIN keys |-> Cmd(name, keys[i])]
EntryKeys(entries) == [i \in DOMAIN entries |-> entries[i][1]]

\* RedisCache::set_batch_json, database.rs:622-653; entries are <<key, json>>
RedisCache_set_batch_json(st, entries, redis_ok) ==
    IF entries = <<>>
    THEN Outcome(OkUnit, <<>>, <<>>, st)
    ELSE IF redis_ok
    THEN Outcome(OkUnit, PipeCmds("SETEX", EntryKeys(entries)),
                 <<Metric("batch_set", "success")>>, ApplySets(st, entries))
    ELSE Outcome(Err("redis"), PipeCmds("SETEX", EntryKeys(entries)),
                 <<Metric("batch_set", "error")>>, st)

\* JsonStorage::set_batch_json, storage.rs:193-221
JsonStorage_set_batch_json(st, entries, redis_ok) ==
    IF entries = <<>>
    THEN Outcome(OkUnit, <<>>, <<>>, st)
    ELSE IF redis_ok
    THEN Outcome(OkUnit, PipeCmds("SETEX", EntryKeys(entries)),
                 <<Metric("batch_set", "success")>>, ApplySets(st, entries))
    ELSE Outcome(Err("redis"), PipeCmds("SETEX", EntryKeys(entries)),
                 <<Metric("batch_set", "error")>>, st)

\* incr_batch that records a batch_incr success for an empty input too
incr_batch_RecordsEmpty(st, keys, redis_ok) ==
    IF keys = <<>> \/ redis_ok
    THEN Outcome(OkUnit, PipeCmds("INCR", keys),
                 <<Metric("batch_incr", "success")>>, ApplyIncrs(st, keys))
    ELSE Outcome(Err("redis"), PipeCmds("INCR", keys),
                 <<Metric("batch_incr", "error")>>, st)

\* RedisCache::incr_batch, database.rs:675-699
incr_batch(st, keys, redis_ok) ==
    IF keys = <<>>
    THEN Outcome(OkUnit, <<>>, <<>>, st)
    ELSE IF redis_ok
    THEN Outcome(OkUnit, PipeCmds("INCR", keys),
                 <<Metric("batch_incr", "success")>>, ApplyIncrs(st, keys))
    ELSE Outcome(Err("redis"), PipeCmds("INCR", keys),
                 <<Metric("batch_incr", "error")>>, st)

\* RedisCache::del_batch, database.rs:718-742
del_batch(st, keys, redis_ok) ==
    IF keys = <<>>
    THEN Outcome(OkUnit, <<>>, <<>>, st)
    ELSE IF redis_ok
    THEN Outcome(OkUnit, PipeCmds("DEL", keys),
                 <<Metric("batch_del", "success")>>, ApplyDels(st, keys))
    ELSE Outcome(Err("redis"), PipeCmds("DEL", keys),
                 <<Metric("batch_del", "error")>>, st)

\* QuerySimulatorWorker::get_analytics_overview ... get_realtime_stats,
\* workers.rs:336-477: look the key up and, on a miss or a failed lookup, cache
\* generated data.  has_users: get_random_user_activity found a user
\* (workers.rs:415-418).  The set's error is only logged.
get_query(st, kind, has_users, get_ok, set_ok, validate, retrieved) ==
    LET key == cache_key(kind)
        looked == RedisCache_get(st, key, get_ok)
        data == CHOOSE d \in Data : TRUE
        filled == IF kind = "realtime_stats"
                  THEN RedisCache_set(st, key, data, set_ok)
                  ELSE set_and_validate(st, key, data, kind, set_ok, validate, retrieved)
    IN  IF kind = "user_activity" /\ ~has_users
        THEN Outcome([tag |-> "Ok", value |-> "false"], <<>>, <<>>, st)
        ELSE IF looked.ret.tag = "Some"
        THEN Outcome([tag |-> "Ok", value |-> "true"], looked.cmds, looked.events, st)
        ELSE Outcome([tag |-> "Ok", value |-> "false"],
                     looked.cmds \o filled.cmds, looked.events \o filled.events, filled.store)

\* counted with a hit also counted as a miss
counted_HitAlsoMiss(result) ==
    IF result.tag = "Ok"
    THEN IF result.value = "true"
         THEN <<"queries_executed_total", "cache_hits_total", "cache_misses_total">>
         ELSE <<"queries_executed_total", "cache_misses_total">>
    ELSE <<>>

\* execute_diverse_query, workers.rs:317-331: the counters the match on the
\* query's result increments, in the order of the increments
counted(result) ==
    IF result.tag = "Ok"
    THEN <<"queries_executed_total",
           IF result.value = "true" THEN "cache_hits_total" ELSE "cache_misses_total">>
    ELSE <<>>

\* sequences of at most MaxBatch elements of S
Batches(S) == UNION {[1 .. n -> S] : n \in 0 .. MaxBatch}

\* a call into the cache layer returns: the state after it
Called(op, key, n, out) ==
    /\ store' = out.store
    /\ call' = [op |-> op, key |-> key, n |-> n, ret |-> out.ret,
                cmds |-> out.cmds, events |-> out.events]
    /\ UNCHANGED <<config_rate, sample_rate, hvars, tvars, cvars, xvars>>

NoCall == [op |-> "-", key |-> "-", n |-> 0, ret |-> OkUnit, cmds |-> <<>>, events |-> <<>>]

\* a caller of RedisCache::get
CacheGet ==
    \E key \in HotKeys : \E redis_ok \in BOOLEAN :
        Called("get", key, 1, RedisCache_get(store, key, redis_ok))

\* a caller of JsonStorage::get
StorageGet ==
    \E key \in HotKeys : \E redis_ok \in BOOLEAN :
        Called("json_get", key, 1, JsonStorage_get(store, key, redis_ok))

\* execute_diverse_query, workers.rs:294-334: the match on query_type.  The
\* latency and query counters it updates afterwards are not in this state.
\* what the read-back GET of a key can return
Retrievable(key) ==
    (IF key \in HotKeys THEN StoredStrings ELSE JsonStrings) \cup {Nil, "error"}

ExecuteQuery ==
    LET validates == {should_validate(sample_rate, draw) : draw \in Draws}
    IN  \E kind \in QueryKinds :
        \E out \in {get_query(store, kind, has_users, get_ok, set_ok, validate, retrieved) :
                        has_users \in IF kind = "user_activity" THEN BOOLEAN ELSE {TRUE},
                        get_ok \in BOOLEAN, set_ok \in BOOLEAN, validate \in validates,
                        retrieved \in Retrievable(cache_key(kind))} :
            Called("query", kind, 1, out)

\* CacheWarmupWorker::bulk_populate / warmup_refresh, workers.rs:504-660
SetBatch ==
    \E keys \in Batches(HotKeys) : \E redis_ok \in BOOLEAN :
        LET entries == [i \in DOMAIN keys |-> <<keys[i], to_string(CHOOSE d \in Data : TRUE)>>]
        IN  Called("set_batch", "-", Len(entries),
                   RedisCache_set_batch_json(store, entries, redis_ok))

\* a caller of JsonStorage::set_batch_json
StorageSetBatch ==
    \E keys \in Batches(HotKeys) : \E redis_ok \in BOOLEAN :
        LET entries == [i \in DOMAIN keys |-> <<keys[i], to_string(CHOOSE d \in Data : TRUE)>>]
        IN  Called("json_set_batch", "-", Len(entries),
                   JsonStorage_set_batch_json(store, entries, redis_ok))

\* EventSimulatorWorker::run_batch, workers.rs:685-727: one counter key per
\* simulated event, none when events_per_second is 0
IncrBatch ==
    \E keys \in Batches(CounterKeys) : \E redis_ok \in BOOLEAN :
        /\ \A k \in CounterKeys :
               CounterValue(store[k]) + Cardinality({i \in DOMAIN keys : keys[i] = k}) <= MaxIncr
        /\ Called("incr_batch", "-", Len(keys), incr_batch(store, keys, redis_ok))

\* a caller of RedisCache::del_batch
DelBatch ==
    \E keys \in Batches(HotKeys) : \E redis_ok \in BOOLEAN :
        Called("del_batch", "-", Len(keys), del_batch(store, keys, redis_ok))

\* the TTL of a key runs out
Expire ==
    \E key \in Keys :
        /\ store[key] # Nil
        /\ store' = [store EXCEPT ![key] = Nil]
        /\ call' = NoCall
        /\ UNCHANGED <<config_rate, sample_rate, hvars, tvars, cvars, xvars>>

\* another client of the Redis server writes a cache key
ForeignWrite ==
    \E key \in HotKeys :
        /\ store[key] # Garbage
        /\ store' = [store EXCEPT ![key] = Garbage]
        /\ call' = NoCall
        /\ UNCHANGED <<config_rate, sample_rate, hvars, tvars, cvars, xvars>>

\* main, main.rs:57-65: the validator is built from the configured rate; the
\* Redis server starts empty
CacheNew(rate) ==
    /\ store = [k \in Keys |-> Nil]
    /\ config_rate = rate
    /\ sample_rate = DataValidator_new(rate)
    /\ call = NoCall

NextWorkers ==
    \/ ExecuteQuery
    \/ Expire
    \/ ForeignWrite

NextCache ==
    \/ CacheGet
    \/ StorageGet
    \/ SetBatch
    \/ StorageSetBatch
    \/ IncrBatch
    \/ DelBatch
    \/ Expire
    \/ ForeignWrite

(***************************************************************************)
(* analytics-demo: the storage backends (storage.rs) over a Redis server   *)
(* that keeps expiry times.  A cache key is the sequence of its            *)
(* colon-separated segments.  Time passes in whole seconds (Tick).         *)
(***************************************************************************)
\* the payloads last_written through the backends
Payloads == Documents \ Data

\* cache keys of the grammar: two overview keys of one organization and its
\* realtime key
StorageKeys ==
    {<<"analytics", "org", "overview", "24h">>,
     <<"analytics", "org", "overview", "1h">>,
     <<"analytics", "org", "realtime">>}

\* the backends modelled, of those storage.rs:2168-2193 selects from
Backends == {"json", "hash", "zset"}

\* a ttl_seconds argument
Ttls == 0 .. MaxTtl

\* HashStorage::split_key and ZSetStorage::split_key, storage.rs:330-337 and
\* 997-1004: key.rsplit_once(':')
split_key(key) ==
    IF Len(key) > 1
    THEN <<SubSeq(key, 1, Len(key) - 1), key[Len(key)]>>
    ELSE <<key, "default">>

\* format!("{}:data", zset_key), storage.rs:1021
data_key(zset_key) == zset_key \o <<"data">>

RedisKeys ==
    StorageKeys \cup {split_key(k)[1] : k \in StorageKeys}
                \cup {data_key(split_key(k)[1]) : k \in StorageKeys}
FieldNames == {"value"} \cup {split_key(k)[2] : k \in StorageKeys}

\* a key the server does not hold
NoKey == [fields |-> [f \in FieldNames |-> Nil], expires |-> FALSE, left |-> 0]

\* the Redis commands the backends send, as the server executes them
Exists(d, rk) == \E f \in FieldNames : d[rk].fields[f] # Nil

\* SETEX key seconds value: refused when seconds is not positive
R_SETEX(d, rk, secs, v) ==
    IF secs <= 0
    THEN [ok |-> FALSE, db |-> d]
    ELSE [ok |-> TRUE,
          db |-> [d EXCEPT ![rk] = [fields |-> [NoKey.fields EXCEPT !["value"] = v],
                                    expires |-> TRUE, left |-> secs]]]

\* HSET key field value (ZADD key score member likewise): the expiry stays
R_HSET(d, rk, f, v) == [d EXCEPT ![rk].fields[f] = v]

\* EXPIRE key seconds: a key given a timeout that is not positive is deleted
R_EXPIRE(d, rk, secs) ==
    IF ~Exists(d, rk) THEN d
    ELSE IF secs <= 0 THEN [d EXCEPT ![rk] = NoKey]
    ELSE [d EXCEPT ![rk].expires = TRUE, ![rk].left = secs]

\* HDEL key field (ZREM key member likewise): the key goes with its last field
R_HDEL(d, rk, f) ==
    LET d2 == [d EXCEPT ![rk].fields[f] = Nil]
    IN  IF Exists(d2, rk) THEN d2 ELSE [d2 EXCEPT ![rk] = NoKey]

\* DEL key
R_DEL(d, rk) == [d EXCEPT ![rk] = NoKey]

\* what GET answers for every cache key
Strings(d) == [k \in StorageKeys |-> d[k].fields["value"]]

\* JsonStorage::set, storage.rs:172-191, and RedisCache::set,
\* database.rs:547-572: SETEX key ttl_seconds json_str
JsonStorage_set(d, key, value, ttl_seconds, redis_ok) ==
    LET json_str == to_string(value)
        r == R_SETEX(d, key, ttl_seconds, json_str)
    IN  IF redis_ok /\ r.ok
        THEN Outcome(OkUnit, <<Cmd("SETEX", key)>>, <<Metric("set", "success")>>, r.db)
        ELSE Outcome(Err("redis"), <<Cmd("SETEX", key)>>, <<Metric("set", "error")>>, d)

\* JsonStorage::del, storage.rs:266-281
JsonStorage_del(d, key, redis_ok) ==
    IF redis_ok
    THEN Outcome(OkUnit, <<Cmd("DEL", key)>>, <<Metric("del", "success")>>, R_DEL(d, key))
    ELSE Outcome(Err("redis"), <<Cmd("DEL", key)>>, <<Metric("del", "error")>>, d)

\* HashStorage::get, storage.rs:345-376
HashStorage_get(d, key, redis_ok) ==
    LET hash_key == split_key(key)[1]
        field == split_key(key)[2]
        value == d[hash_key].fields[field]
    IN  IF redis_ok
        THEN Outcome(IF value # Nil
                     THEN IF from_str(value).tag = "Ok"
                          THEN OkSome(from_str(value).value)
                          ELSE Err(from_str(value).value)
                     ELSE OkNone,
                     <<Cmd("HGET", hash_key)>>,
                     <<Metric("hget", IF value # Nil THEN "hit" ELSE "miss")>>, d)
        ELSE Outcome(Err("redis"), <<Cmd("HGET", hash_key)>>, <<Metric("hget", "error")>>, d)

\* HashStorage::set, storage.rs:378-403: the pipeline HSET, EXPIRE
HashStorage_set(d, key, value, ttl_seconds, redis_ok) ==
    LET json_str == to_string(value)
        hash_key == split_key(key)[1]
        field == split_key(key)[2]
        cmds == <<Cmd("HSET", hash_key), Cmd("EXPIRE", hash_key)>>
    IN  IF redis_ok
        THEN Outcome(OkUnit, cmds, <<Metric("hset", "success")>>,
                     R_EXPIRE(R_HSET(d, hash_key, field, json_str), hash_key, ttl_seconds))
        ELSE Outcome(Err("redis"), cmds, <<Metric("hset", "error")>>, d)

\* HashStorage::del, storage.rs:482-498
HashStorage_del(d, key, redis_ok) ==
    LET hash_key == split_key(key)[1]
        field == split_key(key)[2]
    IN  IF redis_ok
        THEN Outcome(OkUnit, <<Cmd("HDEL", hash_key)>>, <<Metric("hdel", "success")>>,
                     R_HDEL(d, hash_key, field))
        ELSE Outcome(Err("redis"), <<Cmd("HDEL", hash_key)>>, <<Metric("hdel", "error")>>, d)

\* ZSetStorage::get, storage.rs:1012-1045: HGET of the companion hash
ZSetStorage_get(d, key, redis_ok) ==
    LET zset_key == split_key(key)[1]
        member == split_key(key)[2]
        value == d[data_key(zset_key)].fields[member]
    IN  IF redis_ok
        THEN Outcome(IF value # Nil
                     THEN IF from_str(value).tag = "Ok"
                          THEN OkSome(from_str(value).value)
                          ELSE Err(from_str(value).value)
                     ELSE OkNone,
                     <<Cmd("HGET", data_key(zset_key))>>,
                     <<Metric("zset_get", IF value # Nil THEN "hit" ELSE "miss")>>, d)
        ELSE Outcome(Err("redis"), <<Cmd("HGET", data_key(zset_key))>>,
                     <<Metric("zset_get", "error")>>, d)

\* ZSetStorage::set, storage.rs:1047-1076: the pipeline ZADD, HSET, EXPIRE,
\* EXPIRE
ZSetStorage_set(d, key, value, ttl_seconds, redis_ok) ==
    LET json_str == to_string(value)
        zset_key == split_key(key)[1]
        member == split_key(key)[2]
        cmds == <<Cmd("ZADD", zset_key), Cmd("HSET", data_key(zset_key)),
                  Cmd("EXPIRE", zset_key), Cmd("EXPIRE", data_key(zset_key))>>
        d1 == R_HSET(d, zset_key, member, "score")
        d2 == R_HSET(d1, data_key(zset_key), member, json_str)
        d3 == R_EXPIRE(d2, zset_key, ttl_seconds)
    IN  IF redis_ok
        THEN Outcome(OkUnit, cmds, <<Metric("zadd", "success")>>,
                     R_EXPIRE(d3, data_key(zset_key), ttl_seconds))
        ELSE Outcome(Err("redis"), cmds, <<Metric("zadd", "error")>>, d)

\* ZSetStorage::del, storage.rs:1168-1189: the pipeline ZREM, HDEL
ZSetStorage_del(d, key, redis_ok) ==
    LET zset_key == split_key(key)[1]
        member == split_key(key)[2]
        cmds == <<Cmd("ZREM", zset_key), Cmd("HDEL", data_key(zset_key))>>
    IN  IF redis_ok
        THEN Outcome(OkUnit, cmds, <<Metric("zrem", "success")>>,
                     R_HDEL(R_HDEL(d, zset_key, member), data_key(zset_key), member))
        ELSE Outcome(Err("redis"), cmds, <<Metric("zrem", "error")>>, d)

\* the type alias Storage, storage.rs:2168-2193: the call goes to the backend
\* the build selected
Storage_get(b, d, key, redis_ok) ==
    CASE b = "json" -> [JsonStorage_get(Strings(d), key, redis_ok) EXCEPT !.store = d]
      [] b = "hash" -> HashStorage_get(d, key, redis_ok)
      [] b = "zset" -> ZSetStorage_get(d, key, redis_ok)

Storage_set(b, d, key, value, ttl_seconds, redis_ok) ==
    CASE b = "json" -> JsonStorage_set(d, key, value, ttl_seconds, redis_ok)
      [] b = "hash" -> HashStorage_set(d, key, value, ttl_seconds, redis_ok)
      [] b = "zset" -> ZSetStorage_set(d, key, value, ttl_seconds, redis_ok)

Storage_del(b, d, key, redis_ok) ==
    CASE b = "json" -> JsonStorage_del(d, key, redis_ok)
      [] b = "hash" -> HashStorage_del(d, key, redis_ok)
      [] b = "zset" -> ZSetStorage_del(d, key, redis_ok)

NotWritten == [value |-> "-", left |-> 0]

NoStorageCall ==
    [op |-> "-", key |-> <<>>, value |-> "-", ttl |-> 0, redis_ok |-> TRUE,
     ret |-> OkUnit, cmds |-> <<>>]

StorageCalled(op, key, value, ttl, redis_ok, out) ==
    /\ db' = out.store
    /\ scall' = [op |-> op, key |-> key, value |-> value, ttl |-> ttl,
                 redis_ok |-> redis_ok, ret |-> out.ret, cmds |-> out.cmds]
    /\ UNCHANGED <<backend, hvars, tvars, cvars, avars, ovars, pvars, kvars, mvars, lvars, qvars>>

\* a caller of Storage::set
BackendSet ==
    \E key \in StorageKeys : \E value \in Payloads : \E ttl \in Ttls : \E redis_ok \in BOOLEAN :
        LET out == Storage_set(backend, db, key, value, ttl, redis_ok)
        IN  /\ StorageCalled("set", key, value, ttl, redis_ok, out)
            /\ last_written' = IF out.ret.tag = "Ok"
                          THEN [last_written EXCEPT ![key] = [value |-> value, left |-> ttl]]
                          ELSE last_written

\* a caller of Storage::get
BackendGet ==
    \E key \in StorageKeys : \E redis_ok \in BOOLEAN :
        /\ StorageCalled("get", key, "-", 0, redis_ok, Storage_get(backend, db, key, redis_ok))
        /\ UNCHANGED last_written

\* a caller of Storage::del
BackendDel ==
    \E key \in StorageKeys : \E redis_ok \in BOOLEAN :
        LET out == Storage_del(backend, db, key, redis_ok)
        IN  /\ StorageCalled("del", key, "-", 0, redis_ok, out)
            /\ last_written' = IF out.ret.tag = "Ok"
                          THEN [last_written EXCEPT ![key] = NotWritten]
                          ELSE last_written

\* one second passes: the server drops the keys whose time has run out
Tick ==
    /\ \E rk \in RedisKeys : db[rk].expires
    /\ db' = [rk \in RedisKeys |->
                 IF ~db[rk].expires THEN db[rk]
                 ELSE IF db[rk].left <= 1 THEN NoKey
                 ELSE [db[rk] EXCEPT !.left = @ - 1]]
    /\ last_written' = [k \in StorageKeys |->
                      [last_written[k] EXCEPT !.left = IF @ > 0 THEN @ - 1 ELSE 0]]
    /\ scall' = NoStorageCall
    /\ UNCHANGED <<backend, hvars, tvars, cvars, avars, ovars, pvars, kvars, mvars, lvars, qvars>>

\* create_storage, storage.rs:2196-2198, against an empty server
StorageNew(b) ==
    /\ backend = b
    /\ db = [rk \in RedisKeys |-> NoKey]
    /\ last_written = [k \in StorageKeys |-> NotWritten]
    /\ scall = NoStorageCall

NextStorage ==
    \/ BackendSet
    \/ BackendGet
    \/ BackendDel
    \/ Tick

(***************************************************************************)
(* The org cache (analytics_example workers.rs:25-87, analytics-demo       *)
(* workers.rs:29-81), its periodic refresh and one query worker            *)
(* (run_worker).  Organizations are numbered; each has users in the        *)
(* database.                                                               *)
(***************************************************************************)
Orgs == 1 .. MaxOrgs

\* an entry of user_ids_by_org: no entry, an empty Vec, the users of the org
Absent == "absent"
NoUsers == "empty"
Users == "users"

\* OrgIdCache::new, workers.rs:31-36
OrgIdCacheNew ==
    /\ org_ids = {}
    /\ user_ids_by_org = [o \in Orgs |-> Absent]

\* OrgIdCache::get_random_org_id, workers.rs:38-45 (analytics-demo 64-71):
\* the values it can return
get_random_org_id(ids) == IF ids = {} THEN {OkNone} ELSE {OkSome(ToString(o)) : o \in ids}

\* OrgIdCache::get_user_ids, workers.rs:51-54:
\* map.get(&org_id).cloned().unwrap_or_default()
get_user_ids(map, org_id) == IF map[org_id] = Absent THEN NoUsers ELSE map[org_id]

\* the organization a Some(org_id) holds
OrgOf(some) == CHOOSE o \in Orgs : ToString(o) = some.value

RefresherIdle == [pc |-> "sleep", new_org_ids |-> {}, new_user_map |-> [o \in Orgs |-> Absent]]

\* a row is inserted into the organizations table
DbInsert ==
    /\ db_orgs < MaxOrgs
    /\ db_orgs' = db_orgs + 1
    /\ UNCHANGED <<org_ids, user_ids_by_org, refresher, worker, wlast, snapshots,
                   hvars, tvars, cvars, avars, svars, pvars, kvars, mvars, lvars, qvars>>

\* OrgIdCache::refresh, workers.rs:56-72: the queries.  ok: the organization
\* query succeeded; fetched: the organizations whose user query succeeded
RefreshFetch ==
    \E ok \in BOOLEAN : \E fetched \in SUBSET Orgs :
        LET new_org_ids == 1 .. db_orgs
            new_user_map == [o \in Orgs |->
                                IF o \notin new_org_ids THEN Absent
                                ELSE IF o \in fetched THEN Users ELSE NoUsers]
        IN  /\ refresher.pc = "sleep"
            /\ fetched \subseteq new_org_ids
            /\ ok \/ fetched = {}
            /\ refresher' = IF ok /\ new_org_ids # {}
                            THEN [pc |-> "fetched", new_org_ids |-> new_org_ids,
                                  new_user_map |-> new_user_map]
                            ELSE RefresherIdle
            /\ snapshots' = IF ok /\ new_org_ids # {}
                            THEN snapshots \cup {[orgs |-> new_org_ids, users |-> new_user_map]}
                            ELSE snapshots
            /\ UNCHANGED <<db_orgs, org_ids, user_ids_by_org, worker, wlast,
                           hvars, tvars, cvars, avars, svars, pvars, kvars, mvars, lvars, qvars>>

\* workers.rs:74-77: *self.org_ids.write().await = new_org_ids
RefreshWriteOrgs ==
    /\ refresher.pc = "fetched"
    /\ org_ids' = refresher.new_org_ids
    /\ refresher' = [refresher EXCEPT !.pc = "wrote_orgs"]
    /\ worker' = [worker EXCEPT !.undisturbed = FALSE]
    /\ UNCHANGED <<db_orgs, user_ids_by_org, wlast, snapshots,
                   hvars, tvars, cvars, avars, svars, pvars, kvars, mvars, lvars, qvars>>

\* workers.rs:78-81: *self.user_ids_by_org.write().await = new_user_map
RefreshWriteUsers ==
    /\ refresher.pc = "wrote_orgs"
    /\ user_ids_by_org' = refresher.new_user_map
    /\ refresher' = RefresherIdle
    /\ worker' = [worker EXCEPT !.undisturbed = FALSE]
    /\ UNCHANGED <<db_orgs, org_ids, wlast, snapshots, hvars, tvars, cvars, avars, svars, pvars, kvars, mvars, lvars, qvars>>

WorkerIdle == [pc |-> "pick", org_id |-> 0, seen |-> {}, undisturbed |-> TRUE]
NoWork == [op |-> "-", org_id |-> 0, seen |-> {}, users |-> Absent, undisturbed |-> TRUE]

\* run_worker that queries for organization 1 when the cache is empty
run_worker_QueriesWhenEmpty(picked) ==
    IF picked.tag = "Some"
    THEN [pc |-> "query", org_id |-> OrgOf(picked), seen |-> org_ids, undisturbed |-> TRUE]
    ELSE [pc |-> "query", org_id |-> 1, seen |-> org_ids, undisturbed |-> TRUE]

\* QuerySimulatorWorker::run_worker, workers.rs:275-291: the match on what
\* get_random_org_id returned
run_worker(picked) ==
    IF picked.tag = "Some"
    THEN [pc |-> "query", org_id |-> OrgOf(picked), seen |-> org_ids, undisturbed |-> TRUE]
    ELSE [pc |-> "sleeping", org_id |-> 0, seen |-> org_ids, undisturbed |-> TRUE]

\* run_worker: the call of get_random_org_id at the top of the loop
WorkerPick ==
    \E picked \in get_random_org_id(org_ids) :
        /\ worker.pc = "pick"
        /\ worker' = run_worker(picked)
        /\ wlast' = [NoWork EXCEPT !.op = IF picked.tag = "Some" THEN "picked" ELSE "none"]
        /\ UNCHANGED <<db_orgs, org_ids, user_ids_by_org, refresher, snapshots,
                       hvars, tvars, cvars, avars, svars, pvars, kvars, mvars, lvars, qvars>>

\* run_worker: sleep(100 ms) is over
WorkerWake ==
    /\ worker.pc = "sleeping"
    /\ worker' = WorkerIdle
    /\ wlast' = [NoWork EXCEPT !.op = "woke"]
    /\ UNCHANGED <<db_orgs, org_ids, user_ids_by_org, refresher, snapshots,
                   hvars, tvars, cvars, avars, svars, pvars, kvars, mvars, lvars, qvars>>

\* execute_diverse_query(org_id), workers.rs:294-334, in the kind that reads
\* the users of the organization (get_random_user_activity, workers.rs:
\* 414-418): the backend operations and the query metrics are its
WorkerQuery ==
    /\ worker.pc = "query"
    /\ worker' = WorkerIdle
    /\ wlast' = [op |-> "query", org_id |-> worker.org_id, seen |-> worker.seen,
                 users |-> get_user_ids(user_ids_by_org, worker.org_id),
                 undisturbed |-> worker.undisturbed]
    /\ UNCHANGED <<db_orgs, org_ids, user_ids_by_org, refresher, snapshots,
                   hvars, tvars, cvars, avars, svars, pvars, kvars, mvars, lvars, qvars>>

\* main before the tasks are spawned: an empty cache, an empty table
OrgsNew ==
    /\ db_orgs = 0
    /\ OrgIdCacheNew
    /\ refresher = RefresherIdle
    /\ worker = WorkerIdle
    /\ wlast = NoWork
    /\ snapshots = {[orgs |-> {}, users |-> [o \in Orgs |-> Absent]]}

NextOrgs ==
    \/ DbInsert
    \/ RefreshFetch
    \/ RefreshWriteOrgs
    \/ RefreshWriteUsers
    \/ WorkerPick
    \/ WorkerWake
    \/ WorkerQuery

(***************************************************************************)
(* The connection pool (storage.rs:85-113, database.rs:481-513): callers   *)
(* of get_conn on several threads.  fetch_add is one atomic step; the      *)
(* index computation and the clone that follow it are the caller's own.    *)
(***************************************************************************)
Callers == 1 .. NumCallers
PoolSizes == 1 .. MaxPool

\* AtomicUsize::fetch_add(1, Relaxed) that leaves the counter as it was
fetch_add_NoIncrement(counter) == [old |-> counter, new |-> counter]

\* AtomicUsize::fetch_add(1, Relaxed), storage.rs:109: the previous value and
\* the value stored
fetch_add(counter) == [old |-> counter, new |-> counter + 1]

CallerIdle == [pc |-> "idle", old |-> 0]

\* RedisConnectionPool::new, storage.rs:91-105: pool_size connections, and
\* the static COUNTER of get_conn at 0
PoolNew(pool_size) ==
    /\ conn_count = pool_size
    /\ COUNTER = 0
    /\ callers = [c \in Callers |-> CallerIdle]
    /\ acquired = <<>>

\* get_conn, storage.rs:109: COUNTER.fetch_add(1, Ordering::Relaxed)
GetConnFetchAdd ==
    \E c \in Callers :
        /\ callers[c].pc = "idle"
        /\ COUNTER < MaxCalls
        /\ COUNTER' = fetch_add(COUNTER).new
        /\ callers' = [callers EXCEPT ![c] = [pc |-> "fetched", old |-> fetch_add(COUNTER).old]]
        /\ UNCHANGED <<conn_count, acquired, hvars, tvars, cvars, avars, svars, ovars, kvars, mvars, lvars, qvars>>

\* get_conn, storage.rs:109-110: idx = old % self.conn_count and
\* self.connections[idx].clone(); the handle returned is the index
GetConnReturn ==
    \E c \in Callers :
        /\ callers[c].pc = "fetched"
        /\ acquired' = Append(acquired, [caller |-> c, old |-> callers[c].old,
                                         idx |-> callers[c].old % conn_count])
        /\ callers' = [callers EXCEPT ![c] = CallerIdle]
        /\ UNCHANGED <<conn_count, COUNTER, hvars, tvars, cvars, avars, svars, ovars, kvars, mvars, lvars, qvars>>

NextPool ==
    \/ GetConnFetchAdd
    \/ GetConnReturn

(***************************************************************************)
(* redis-observer: the coverage check over the observed Redis instances    *)
(* (main.rs:2185-2259).  A percentage is kept as the exact fraction        *)
(* num / den.                                                              *)
(***************************************************************************)
KeyUniverse == 1 .. MaxKeys

\* Option<usize> and Option<f64>
NoCount == [some |-> FALSE, value |-> 0]
SomeCount(n) == [some |-> TRUE, value |-> n]
NoPct == [some |-> FALSE, num |-> 0, den |-> 1]
SomePct(num, den) == [some |-> TRUE, num |-> num, den |-> den]

\* DbStats::new, main.rs:1743-1746: the two fields of a row the check sets
DbStatsNew == [unique_keys |-> NoCount, coverage |-> NoPct]

\* get_all_keys, main.rs:2236-2257: None when the connection or a SCAN fails
get_all_keys(content, answers) == IF answers THEN <<content>> ELSE <<>>

\* the filter_map(...).collect() of main.rs:2191-2195
RECURSIVE collect_key_sets(_, _, _)
collect_key_sets(contents, answering, i) ==
    IF i > Len(contents) THEN <<>>
    ELSE get_all_keys(contents[i], i \in answering)
             \o collect_key_sets(contents, answering, i + 1)

\* main.rs:2202-2203: the union of all key sets
all_keys(key_sets) == UNION {key_sets[j] : j \in DOMAIN key_sets}

\* the sizes of the key sets added up, a shared key counted once per holder
RECURSIVE SumOfSizes(_, _)
SumOfSizes(key_sets, i) ==
    IF i > Len(key_sets) THEN 0
    ELSE Cardinality(key_sets[i]) + SumOfSizes(key_sets, i + 1)

\* total_unique as the sum of the sizes instead of the size of the union
total_unique_CountsDuplicates(key_sets) == SumOfSizes(key_sets, 1)

\* main.rs:2204
total_unique(key_sets) == Cardinality(all_keys(key_sets))

\* my_unique with any in place of all: keys that some other instance lacks
my_unique_MissingSomewhere(key_sets, i) ==
    Cardinality({k \in key_sets[i] :
                    \E j \in DOMAIN key_sets : j # i /\ k \notin key_sets[j]})

\* main.rs:2212-2220: keys of instance i that no other instance holds
my_unique(key_sets, i) ==
    Cardinality({k \in key_sets[i] :
                    \A j \in DOMAIN key_sets : j = i \/ k \notin key_sets[j]})

\* run_coverage_check without the return of main.rs:2197-2199: the rows of the
\* instances that answered are set from the key sets that were read
run_coverage_check_PartialUpdate(stats, contents, answering) ==
    LET read == UNION {contents[j] : j \in answering}
    IN  IF Len(contents) < 2 THEN stats
        ELSE [i \in DOMAIN stats |->
                 IF i \notin answering THEN stats[i]
                 ELSE [unique_keys |->
                           SomeCount(Cardinality({k \in contents[i] :
                               \A j \in answering : j = i \/ k \notin contents[j]})),
                       coverage |-> IF Cardinality(read) > 0
                                    THEN SomePct(Cardinality(contents[i]) * 100,
                                                 Cardinality(read))
                                    ELSE SomePct(100, 1)]]

\* App::run_coverage_check, main.rs:2185-2230: the rows after the check.
\* contents: what each instance holds; answering: the instances whose keys
\* could be read
run_coverage_check(stats, contents, answering) ==
    LET key_sets == collect_key_sets(contents, answering, 1)
    IN  IF Len(contents) < 2 THEN stats
        ELSE IF Len(key_sets) # Len(contents) THEN stats
        ELSE [i \in DOMAIN stats |->
                 [unique_keys |-> SomeCount(my_unique(key_sets, i)),
                  coverage |-> IF total_unique(key_sets) > 0
                               THEN SomePct(Cardinality(key_sets[i]) * 100,
                                            total_unique(key_sets))
                               ELSE SomePct(100, 1)]]

\* a client of an instance sets or deletes a key
KeyChange ==
    \E i \in DOMAIN instance_keys : \E k \in KeyUniverse :
        /\ instance_keys' = [instance_keys EXCEPT ![i] =
                                IF k \in @ THEN @ \ {k} ELSE @ \cup {k}]
        /\ checked' = [checked EXCEPT !.ran = FALSE]
        /\ UNCHANGED <<db_stats, hvars, tvars, cvars, avars, svars, ovars, pvars, mvars, lvars, qvars>>

\* App::update calls run_coverage_check (main.rs:2176-2180)
CoverageCheck ==
    \E answering \in SUBSET DOMAIN instance_keys :
        /\ db_stats' = run_coverage_check(db_stats, instance_keys, answering)
        /\ checked' = [ran |-> TRUE, answering |-> answering, before |-> db_stats,
                       last_sets |-> IF /\ Len(instance_keys) >= 2
                                        /\ answering = DOMAIN instance_keys
                                     THEN instance_keys ELSE checked.last_sets]
        /\ UNCHANGED <<instance_keys, hvars, tvars, cvars, avars, svars, ovars, pvars, mvars, lvars, qvars>>

\* App::new, main.rs:1790-1820, with n clients whose instances are empty
CoverageNew(n) ==
    /\ instance_keys = [i \in 1 .. n |-> {}]
    /\ db_stats = [i \in 1 .. n |-> DbStatsNew]
    /\ checked = [ran |-> FALSE, answering |-> {}, before |-> db_stats, last_sets |-> <<>>]

NextCoverage ==
    \/ KeyChange
    \/ CoverageCheck

(***************************************************************************)
(* redis-complexity-analyzer: the key type sampler (main.rs:399-457).      *)
(* The sample rate is rate / RateSteps.                                    *)
(***************************************************************************)
SampleRates == 0 .. RateSteps
SampleLimits == 0 .. MaxSamples

\* usize::max and usize::min
max(a, b) == IF a >= b THEN a ELSE b
min(a, b) == IF a <= b THEN a ELSE b

\* main.rs:417-420: (total_keys as f64 * sample_rate) as usize, then
\* .max(min_samples).min(max_samples).min(total_keys)
target_samples(total_keys, config) ==
    min(min(max((total_keys * config.sample_rate) \div RateSteps,
                config.min_samples),
            config.max_samples),
        total_keys)

\* rng.gen::<f64>() < config.sample_rate, main.rs:434: the draw is in [0, 1)
SampleDraws(config) ==
    IF config.sample_rate = 0 THEN {FALSE}
    ELSE IF config.sample_rate >= RateSteps THEN {TRUE}
    ELSE BOOLEAN

\* before sample_key_types is called
SamplerIdle(total_keys, keyspace, config) ==
    [pc |-> "idle", total_keys |-> total_keys, config |-> config,
     target_samples |-> 0, cursor |-> 0, new_cursor |-> 0, keys |-> 0,
     unscanned |-> keyspace, total_sampled |-> 0, result |-> "none"]

\* main.rs:406-420: the early return for an empty database, else the target
SampleStart ==
    /\ sm.pc = "idle"
    /\ sm' = IF sm.total_keys = 0
             THEN [sm EXCEPT !.pc = "returned", !.result = "Ok"]
             ELSE [sm EXCEPT !.pc = "scan",
                             !.target_samples = target_samples(sm.total_keys, sm.config)]
    /\ UNCHANGED <<hvars, tvars, cvars, avars, svars, ovars, pvars, kvars, lvars, qvars>>

\* main.rs:424-430: one SCAN cursor COUNT 1000; the reply is a batch of keys
\* and the next cursor, 0 when the keyspace has been walked; a failed SCAN
\* ends the function with Err
SampleScan ==
    /\ sm.pc = "scan"
    /\ \/ \E n \in 0 .. min(ScanCount, sm.unscanned) :
            /\ n = 0 => sm.unscanned = 0
            /\ sm' = [sm EXCEPT !.pc = "batch", !.keys = n,
                                !.unscanned = @ - n,
                                !.new_cursor = IF sm.unscanned - n = 0 THEN 0 ELSE 1]
       \/ sm' = [sm EXCEPT !.pc = "returned", !.result = "Err"]
    /\ UNCHANGED <<hvars, tvars, cvars, avars, svars, ovars, pvars, kvars, lvars, qvars>>

\* main.rs:433-448: one key of the batch; a sampled key is typed and added,
\* then the count is compared with the target
SampleKey ==
    /\ sm.pc = "batch"
    /\ sm.keys > 0
    /\ \E sampled \in SampleDraws(sm.config) :
          sm' = IF ~sampled THEN [sm EXCEPT !.keys = @ - 1]
                ELSE IF sm.total_sampled + 1 >= sm.target_samples
                THEN [sm EXCEPT !.keys = @ - 1, !.total_sampled = @ + 1,
                                !.pc = "returned", !.result = "Ok"]
                ELSE [sm EXCEPT !.keys = @ - 1, !.total_sampled = @ + 1]
    /\ UNCHANGED <<hvars, tvars, cvars, avars, svars, ovars, pvars, kvars, lvars, qvars>>

\* main.rs:450-456: the batch is done; cursor 0 ends the loop
SampleNextBatch ==
    /\ sm.pc = "batch"
    /\ sm.keys = 0
    /\ sm' = IF sm.new_cursor = 0
             THEN [sm EXCEPT !.cursor = 0, !.pc = "returned", !.result = "Ok"]
             ELSE [sm EXCEPT !.cursor = sm.new_cursor, !.pc = "scan"]
    /\ UNCHANGED <<hvars, tvars, cvars, avars, svars, ovars, pvars, kvars, lvars, qvars>>

Configs == [sample_rate : SampleRates, min_samples : SampleLimits,
            max_samples : SampleLimits]

SamplerNew(total_keys, keyspace, config) ==
    sm = SamplerIdle(total_keys, keyspace, config)

NextSampler ==
    \/ SampleStart
    \/ SampleScan
    \/ SampleKey
    \/ SampleNextBatch

(***************************************************************************)
(* redis-observer: the debug log (main.rs:1778, 1827-1833).  Every caller  *)
(* of log_debug runs on the UI thread; a message is one of LogMessages.    *)
(***************************************************************************)
LogMessages == 1 .. NumMessages

\* log_debug that drops the newest entry of a full log instead of the oldest
log_debug_DropsNewest(log, msg) ==
    IF Len(log) >= LogCapacity
    THEN Append(SubSeq(log, 1, Len(log) - 1), msg)
    ELSE Append(log, msg)

\* App::log_debug, main.rs:1827-1833: remove(0) when the log holds the
\* capacity (20 in the program), then push
log_debug(log, msg) ==
    IF Len(log) >= LogCapacity
    THEN Append(Tail(log), msg)
    ELSE Append(log, msg)

\* one call of log_debug by the UI thread
LogDebug ==
    \E msg \in LogMessages :
        /\ Len(logged) < MaxLogCalls
        /\ debug_log' = log_debug(debug_log, msg)
        /\ logged' = Append(logged, msg)
        /\ UNCHANGED <<hvars, tvars, cvars, avars, svars, ovars, pvars, kvars, mvars, qvars>>

\* App::new_with_clients, main.rs:1819: debug_log: Vec::new()
LogNew ==
    /\ debug_log = <<>>
    /\ logged = <<>>

NextLog ==
    \/ LogDebug

(***************************************************************************)
(* analytics-demo: the query counters of AppMetrics (metrics.rs:160-163)   *)
(* as the query workers of start_worker_pool update them                   *)
(* (workers.rs:256-334).  IntCounter::inc is one atomic addition.          *)
(***************************************************************************)
QueryWorkers == 1 .. NumQueryWorkers

CounterNames == {"queries_executed_total", "cache_hits_total", "cache_misses_total"}

\* what a get_* function returns to execute_diverse_query: every one of them
\* ends in Ok(true) or Ok(false) (workers.rs:336-477)
QueryResults == {[tag |-> "Ok", value |-> "true"], [tag |-> "Ok", value |-> "false"]}

\* a worker between two queries
QueryWorkerIdle == [pc |-> "query", todo |-> <<>>]

\* workers.rs:298-315: the query of a worker returns; the increments of
\* workers.rs:317-331 are ahead of it
QueryReturns ==
    \E w \in QueryWorkers : \E result \in QueryResults :
        /\ query_workers[w].pc = "query"
        /\ query_counters["queries_executed_total"]
               + Cardinality({v \in QueryWorkers :
                                 /\ query_workers[v].pc = "count"
                                 /\ Head(query_workers[v].todo) = "queries_executed_total"})
               < MaxQueries
        /\ query_workers' = [query_workers EXCEPT
                                ![w] = [pc |-> "count", todo |-> counted(result)]]
        /\ UNCHANGED <<query_counters, hvars, tvars, cvars, avars, svars, ovars, pvars,
                       kvars, mvars, lvars>>

\* workers.rs:320-325: the next inc() of the worker; after the last one the
\* worker runs its next query
IncCounter ==
    \E w \in QueryWorkers :
        /\ query_workers[w].pc = "count"
        /\ LET todo == query_workers[w].todo
           IN  /\ query_counters' = [query_counters EXCEPT ![Head(todo)] = @ + 1]
               /\ query_workers' = [query_workers EXCEPT
                                       ![w] = IF Tail(todo) = <<>> THEN QueryWorkerIdle
                                              ELSE [pc |-> "count", todo |-> Tail(todo)]]
        /\ UNCHANGED <<hvars, tvars, cvars, avars, svars, ovars, pvars, kvars, mvars, lvars>>

\* AppMetrics::new (metrics.rs:220-240) and start_worker_pool
QueryCountersNew ==
    /\ query_counters = [c \in CounterNames |-> 0]
    /\ query_workers = [w \in QueryWorkers |-> QueryWorkerIdle]

NextCounters ==
    \/ QueryReturns
    \/ IncCounter

\* the state every specification starts the parts it leaves alone in
IdleNew == StorageNew("json") /\ OrgsNew /\ PoolNew(1) /\ CoverageNew(1) /\ LogNew /\ QueryCountersNew
    /\ SamplerNew(0, 0, [sample_rate |-> 0, min_samples |-> 0, max_samples |-> 0])

Init == HistNew /\ ThreadsNew /\ AppNew /\ CacheNew(RateSteps) /\ IdleNew
InitRun == HistNew /\ ThreadsNew /\ RunStart /\ CacheNew(RateSteps) /\ IdleNew
InitWorkers ==
    HistNew /\ ThreadsNew /\ AppNew /\ IdleNew /\ \E rate \in ConfigRates : CacheNew(rate)

SpecHist == Init /\ [][NextHist]_vars
SpecHistConc == Init /\ [][NextHistConc]_vars
SpecSetup == Init /\ [][NextSetup]_vars
SpecSetupRace == Init /\ [][NextSetupRace]_vars
InitUI == HistNew /\ ThreadsNew /\ UiStart /\ CacheNew(RateSteps) /\ IdleNew
SpecRun == InitRun /\ [][NextRun]_vars
SpecUI == InitUI /\ [][NextUI]_vars
SpecCache == Init /\ [][NextCache]_vars
SpecWorkers == InitWorkers /\ [][NextWorkers]_vars
InitStorage ==
    /\ HistNew /\ ThreadsNew /\ AppNew /\ CacheNew(RateSteps) /\ OrgsNew /\ PoolNew(1)
    /\ CoverageNew(1)
    /\ \E b \in Backends : StorageNew(b)
    /\ SamplerNew(0, 0, [sample_rate |-> 0, min_samples |-> 0, max_samples |-> 0]) /\ LogNew /\ QueryCountersNew
SpecStorage == InitStorage /\ [][NextStorage]_vars
SpecOrgs == Init /\ [][NextOrgs]_vars
InitPool ==
    /\ HistNew /\ ThreadsNew /\ AppNew /\ CacheNew(RateSteps) /\ StorageNew("json") /\ OrgsNew
    /\ CoverageNew(1)
    /\ \E pool_size \in PoolSizes : PoolNew(pool_size)
    /\ SamplerNew(0, 0, [sample_rate |-> 0, min_samples |-> 0, max_samples |-> 0]) /\ LogNew /\ QueryCountersNew
SpecPool == InitPool /\ [][NextPool]_vars
InitCoverage ==
    /\ HistNew /\ ThreadsNew /\ AppNew /\ CacheNew(RateSteps) /\ StorageNew("json") /\ OrgsNew
    /\ PoolNew(1)
    /\ \E n \in 1 .. NumInstances : CoverageNew(n)
    /\ SamplerNew(0, 0, [sample_rate |-> 0, min_samples |-> 0, max_samples |-> 0]) /\ LogNew /\ QueryCountersNew
SpecCoverage == InitCoverage /\ [][NextCoverage]_vars
InitSampler ==
    /\ HistNew /\ ThreadsNew /\ AppNew /\ CacheNew(RateSteps) /\ StorageNew("json") /\ OrgsNew
    /\ PoolNew(1) /\ CoverageNew(1)
    /\ \E total_keys \in 0 .. MaxDbKeys : \E keyspace \in 0 .. MaxDbKeys :
       \E config \in Configs : SamplerNew(total_keys, keyspace, config)
    /\ LogNew /\ QueryCountersNew
SpecSampler == InitSampler /\ [][NextSampler]_vars
SpecLog == Init /\ [][NextLog]_vars
SpecCounters == Init /\ [][NextCounters]_vars
\* the runtime keeps scheduling the worker task and the refresh task, and a
\* sleep ends
SpecOrgsFair ==
    /\ SpecOrgs
    /\ WF_vars(WorkerPick) /\ WF_vars(WorkerWake) /\ WF_vars(WorkerQuery)
    /\ WF_vars(RefreshWriteOrgs) /\ WF_vars(RefreshWriteUsers)

(***************************************************************************)
(* Claims                                                                  *)
(***************************************************************************)
\* the terminal states of the data model, as the claims list them
TerminalStates == {"Completed", "Failed", "Cancelled", "RolledBack", "RollingBack"}

\* the event handled in the last step is a status update
StatusUpdateHandled == last_event.ev.type = "MigrationStatusUpdate"

\* the last step took the status from a terminal state to a state outside the set
LeftTerminal ==
    /\ last_event.old \in TerminalStates
    /\ migration_state.status \notin TerminalStates

\* C1: processing a non-forced status update never takes the status from a
\* terminal state (Completed, Failed, Cancelled, RolledBack, RollingBack) to a
\* status outside that set.
C1_PollKeepsTerminal ==
    (StatusUpdateHandled /\ ~last_event.ev.force /\ last_event.old \in TerminalStates) =>
        migration_state.status \in TerminalStates

C3_NoRunningDowngrade ==
    (/\ StatusUpdateHandled
     /\ ~last_event.ev.force
     /\ last_event.old = "Running"
     /\ last_event.ev.tag \in {"Pending", "Testing", "Ready"}) =>
        migration_state.status = "Running"

\* C3 case: a poll update carrying Testing has been processed at status Running
C3_Witness ==
    /\ StatusUpdateHandled
    /\ ~last_event.ev.force
    /\ last_event.old = "Running"
    /\ last_event.ev.tag = "Testing"

\* C4: processing a forced status update sets the status to the status the
\* update carries, whatever the status was.
C4_ForcedOverwrites ==
    (StatusUpdateHandled /\ last_event.ev.force) =>
        migration_state.status = last_event.ev.tag

\* C4 case: a forced update carrying Pending has been processed at status
\* RolledBack, where a non-forced one would be refused
C4_Witness ==
    /\ StatusUpdateHandled
    /\ last_event.ev.force
    /\ last_event.old = "RolledBack"
    /\ last_event.ev.tag = "Pending"
    /\ migration_state.status = "Pending"

\* C10 as stated: a polling task whose last poll returned a terminal state of
\* the data model is forwarding that status and then returns; it is never back
\* at the poll.
C10_StopsOnTerminal ==
    \A t \in TasksOf("trigger") :
        t.val \in TerminalStates =>
            /\ t.pc = "status"
            /\ TriggerEvent(t) = MigrationStatusUpdate(t.val, FALSE, "trigger")
            /\ TriggerAfterSend(t) = Done

\* C10: a polling task whose last poll returned Completed, Failed, Cancelled or
\* RolledBack is forwarding that status and then returns; it is never back at
\* the poll.  (RollingBack is forwarded and the task goes on polling.)
C10_StopsOnFinal ==
    \A t \in TasksOf("trigger") :
        t.val \in {"Completed", "Failed", "Cancelled", "RolledBack"} =>
            /\ t.pc = "status"
            /\ TriggerEvent(t) = MigrationStatusUpdate(t.val, FALSE, "trigger")
            /\ TriggerAfterSend(t) = Done

\* C10 case: the poll update carrying RolledBack has been processed and the
\* task that sent it is gone
C10_Witness ==
    /\ StatusUpdateHandled
    /\ last_event.ev.src = "trigger"
    /\ last_event.ev.tag = "RolledBack"
    /\ TasksOf("trigger") = {}

FailureTypes ==
    {"MigrationError", "TrafficUpdateFailed", "MigrationCompleteFailed",
     "MigrationCancelFailed", "MigrationRollbackFailed"}

\* C12: processing the failure event of a migrate, complete, cancel, rollback or
\* traffic request changes last_error to the reported error and nothing else
\* of migration_state: status, setup step, identifiers, mode and canary
\* percentage stay as they were.
C12_FailureOnlySetsLastError ==
    [][(/\ chan # <<>>
        /\ chan' = Tail(chan)
        /\ Head(chan).type \in FailureTypes) =>
           migration_state' = [migration_state EXCEPT !.last_error = Head(chan).msg]]_vars

\* C12 case: TrafficUpdateFailed has been processed at status Running in
\* Canary mode with the percentage away from its initial value
C12_Witness ==
    /\ last_event.ev.type = "TrafficUpdateFailed"
    /\ migration_state.last_error = "error"
    /\ migration_state.status = "Running"
    /\ migration_state.mode = "Canary"
    /\ migration_state.read_percentage = PctSteps

\* a keypress has started a task of this kind in the step: one more task
\* stands at the first await of the kind
Started(kind, pc) ==
    \E t \in BagToSet(tasks') :
        /\ t.kind = kind
        /\ t.pc = pc
        /\ CopiesIn(t, tasks') > CopiesIn(t, tasks)

\* setup is Ready in the state
SetupReady == migration_state.setup_step = Step("Ready")

\* room for one more task within the bound of the model
RoomForTask == BagCardinality(tasks) < MaxTasks

\* C13: a command keypress starts its task if and only if its guard holds at
\* the keypress: migrate iff Ready and status in {Pending, Testing, Ready};
\* traffic update iff Ready, mode Canary and status Running; complete iff Ready
\* and status Running; cancel iff Ready and status in {Running, Paused}.
C13_KeysFollowGuards ==
    /\ [][/\ Started("trigger", "post") =>
                (SetupReady /\ migration_state.status \in {"Pending", "Testing", "Ready"})
          /\ Started("traffic", "patch") =>
                (SetupReady /\ migration_state.mode = "Canary"
                            /\ migration_state.status = "Running")
          /\ Started("complete", "post") =>
                (SetupReady /\ migration_state.status = "Running")
          /\ Started("cancel", "post") =>
                (SetupReady /\ migration_state.status \in {"Running", "Paused"})]_vars
    /\ [](RoomForTask =>
            /\ (SetupReady /\ migration_state.status \in {"Pending", "Testing", "Ready"}) =>
                   ENABLED handle_migrate_key
            /\ (SetupReady /\ migration_state.mode = "Canary"
                           /\ migration_state.status = "Running") =>
                   (ENABLED handle_traffic_increase /\ ENABLED handle_traffic_decrease)
            /\ (SetupReady /\ migration_state.status = "Running") =>
                   ENABLED handle_complete_key
            /\ (SetupReady /\ migration_state.status \in {"Running", "Paused"}) =>
                   ENABLED handle_cancel_key)

\* C13 case: the cancel key has started its task at status Paused
C13_Witness ==
    /\ migration_state.status = "Paused"
    /\ Task("cancel", "post") \in BagToSet(tasks)

\* the state in which the claim allows a rollback request
RollbackAllowed ==
    /\ SetupReady
    /\ migration_state.interlay_id
    /\ migration_state.status \in {"Completed", "Failed", "Cancelled", "PartialFailure"}

\* C14: a rollback request is issued only when setup is Ready, the interlay id
\* is known and the status is Completed, Failed, Cancelled or PartialFailure;
\* in any other state the rollback key has no effect.
C14_RollbackOnlyWhenAllowed ==
    /\ [][Started("rollback", "dbg_post") => RollbackAllowed]_vars
    /\ [](~RollbackAllowed => ~ENABLED handle_rollback_key)

\* C14 case: the rollback key has started its task on a partially failed
\* migration
C14_Witness ==
    /\ migration_state.status = "PartialFailure"
    /\ migration_state.interlay_id
    /\ Task("rollback", "dbg_post") \in BagToSet(tasks)

\* C15: after a rollback request succeeds, the status passes through
\* RollingBack and, with no user command after the rollback key, the status
\* equals the status of the rollback response from the moment its update is
\* handled, whatever other tasks are still running.
C15_RollbackResponseIsFinal ==
    /\ last_event.ev.type = "MigrationRolledBack" => migration_state.status = "RollingBack"
    /\ rollback_response \notin {"-", "requested"} =>
           migration_state.status = rollback_response

\* no failure of a step has been observed
NoStepFailed ==
    /\ migration_state.setup_step.tag # "Failed"
    /\ \A i \in CallIndices : migration_state.api_calls[i].tag # "Failed"

\* API call i has been observed to end well
StepFinished(i) == migration_state.api_calls[i].tag \in {"Success", "Skipped"}

\* SetupComplete has been handled: only that event sets the ids
SetupCompleteObserved == migration_state.migration_id

\* the events observed so far are those of one setup run
OneSetupRun == setup_runs = 1

\* C16: in a setup run with no failing step the UI sees the seven API calls in
\* index order, each Pending, then InProgress, then Success or Skipped, a call
\* leaving Pending only when every earlier call has ended; SetupComplete is
\* seen only when all seven are Success or Skipped, and status Running only
\* after SetupComplete.
C16_SetupObservedInOrder ==
    /\ []((OneSetupRun /\ NoStepFailed) =>
            /\ \A i, j \in CallIndices :
                   (i < j /\ migration_state.api_calls[j].tag # "Pending") => StepFinished(i)
            /\ SetupCompleteObserved => \A i \in CallIndices : StepFinished(i)
            /\ migration_state.status = "Running" => SetupCompleteObserved)
    /\ [][OneSetupRun => \A i \in CallIndices :
              migration_state'.api_calls[i] # migration_state.api_calls[i] =>
                  \/ /\ migration_state.api_calls[i].tag = "Pending"
                     /\ migration_state'.api_calls[i].tag = "InProgress"
                  \/ /\ migration_state.api_calls[i].tag = "InProgress"
                     /\ migration_state'.api_calls[i].tag \in {"Success", "Skipped", "Failed"}]_vars

\* C16 case: the run has ended with a skipped step, SetupComplete has been
\* handled and the status sync has reported Running
C16_Witness ==
    /\ \A i \in CallIndices : StepFinished(i)
    /\ migration_state.api_calls[CREATE_MIGRATION].tag = "Skipped"
    /\ migration_state.api_calls[ADD_INTERLAY].tag = "Success"
    /\ SetupCompleteObserved
    /\ migration_state.status = "Running"

\* the last call was a query of a worker that wrote its key: the SETEX succeeded
QueryWrote ==
    /\ call.op = "query"
    /\ \E i \in DOMAIN call.cmds : call.cmds[i] = Cmd("SETEX", cache_key(call.key))
    /\ \E i \in DOMAIN call.events : call.events[i] = Metric("set", "success")

\* the write of the last call was followed by a GET of the last_written key
QueryReadBack ==
    \E i \in DOMAIN call.cmds :
        /\ call.cmds[i] = Cmd("SETEX", cache_key(call.key))
        /\ i + 1 \in DOMAIN call.cmds
        /\ call.cmds[i + 1] = Cmd("GET", cache_key(call.key))

C18_RateZeroNeverValidates ==
    config_rate <= 0 =>
        /\ sample_rate = 0
        /\ \A draw \in Draws : ~should_validate(sample_rate, draw)
        /\ call.op = "query" =>
               /\ ~QueryReadBack
               /\ \A i \in DOMAIN call.events : call.events[i].operation \in {"get", "set"}

\* C18 case: the configured rate is negative and a worker has filled a miss
\* through set_and_validate
C18_Witness ==
    /\ config_rate < 0
    /\ QueryWrote
    /\ call.key = "top_pages"

\* the _batch operations
BatchOps == {"set_batch", "json_set_batch", "incr_batch", "del_batch"}

\* C19 as stated: a _batch operation called with an empty input returns
\* success, sends no Redis command and records exactly one metrics event, with
\* a success label.
C19_EmptyBatchOneEvent ==
    (call.op \in BatchOps /\ call.n = 0) =>
        /\ call.ret = OkUnit
        /\ call.cmds = <<>>
        /\ Len(call.events) = 1
        /\ call.events[1].result = "success"

\* C19: a _batch operation called with an empty input returns success, sends
\* no Redis command and records no metrics event.
C19_EmptyBatchNoEvent ==
    (call.op \in BatchOps /\ call.n = 0) =>
        /\ call.ret = OkUnit
        /\ call.cmds = <<>>
        /\ call.events = <<>>

\* C19 case: incr_batch has returned from a call with no keys
C19_Witness ==
    /\ call.op = "incr_batch"
    /\ call.n = 0
    /\ call.ret = OkUnit

\* C20: when the string stored under the key cannot be decoded, get returns an
\* error, never a miss.
C20_DecodeErrorIsError ==
    (/\ call.op \in {"get", "json_get"}
     /\ store[call.key] # Nil
     /\ from_str(store[call.key]).tag = "Err") =>
        /\ call.ret.tag = "Err"
        /\ call.ret # OkNone

\* C20 case: RedisCache::get has read a truncated document and returned the
\* parse error
C20_Witness ==
    /\ call.op = "get"
    /\ store[call.key] = Garbage
    /\ call.events = <<Metric("get", "hit")>>
    /\ call.ret = Err("parse")

(***************************************************************************)
(* Storage backends: TTL                                                   *)
(***************************************************************************)
\* the server answered the last call to op
Answered(op) == scall.op = op /\ scall.redis_ok

\* a command of the last call carries an expiry
SentExpiry == \E i \in DOMAIN scall.cmds : scall.cmds[i].cmd \in {"EXPIRE", "SETEX"}

\* C21: a set with ttl_seconds = 0 that the server answers succeeds, sends no
\* command carrying an expiry, and leaves the value readable with no expiry
\* on the key that holds it.
C21_ZeroTtlStoresForever ==
    (Answered("set") /\ scall.ttl = 0) =>
        /\ scall.ret.tag = "Ok"
        /\ ~SentExpiry
        /\ Storage_get(backend, db, scall.key, TRUE).ret = OkSome(scall.value)
        /\ \A rk \in RedisKeys : ~db[rk].expires

\* C22: a get of a key that the server answers, made before the TTL of the
\* last set of that key has elapsed, returns the payload of that set,
\* whatever was done to other keys in between.
C22_GetWithinTtlReturnsWritten ==
    (Answered("get") /\ last_written[scall.key].left > 0) =>
        scall.ret = OkSome(last_written[scall.key].value)

(***************************************************************************)
(* Org cache: refresh and the query worker                                 *)
(***************************************************************************)
\* C23: a query that read the organization list and then the user map, with
\* no write to the cache between its two reads, saw the list and the users of
\* its organization as one and the same published snapshot holds them.
C23_ReaderSeesOneSnapshot ==
    (wlast.op = "query" /\ wlast.undisturbed) =>
        \E s \in snapshots :
            /\ wlast.seen = s.orgs
            /\ wlast.users = get_user_ids(s.users, wlast.org_id)

\* C25: while the org cache is empty the worker runs no query (no backend
\* operation, no query metric): finding it empty it goes to sleep and then
\* tries again; and once the org cache is non-empty the worker eventually
\* executes a query.
C25_EmptyCacheSleepsThenQueries ==
    /\ [](org_ids = {} => (worker.pc # "query" /\ wlast.op \notin {"picked", "query"}))
    /\ [][(org_ids = {} /\ worker.pc = "pick" /\ worker'.pc # "pick")
              => worker'.pc = "sleeping"]_vars
    /\ [][(worker.pc = "sleeping" /\ worker'.pc # "sleeping") => worker'.pc = "pick"]_vars
    /\ (org_ids # {}) ~> (wlast.op = "query")

\* the worker went to sleep on an empty cache that has been filled since
C25_Witness == worker.pc = "sleeping" /\ org_ids # {}

(***************************************************************************)
(* Connection pool                                                         *)
(***************************************************************************)
\* the counter values observed so far, one entry per call of fetch_add
RECURSIVE InFlight(_)
InFlight(c) ==
    IF c = 0 THEN <<>>
    ELSE InFlight(c - 1) \o (IF callers[c].pc = "fetched" THEN <<callers[c].old>> ELSE <<>>)

Observed == [i \in DOMAIN acquired |-> acquired[i].old] \o InFlight(NumCallers)

C26_CountAndSumWithinOnePerWriter ==
    (dr.pc \in {"min", "max", "collect"}) =>
        /\ dr.count - dr.calls <= NumWriters
        /\ dr.calls - dr.count <= NumWriters

(***************************************************************************)
(* C27.  After every coverage check, each instance row i shows              *)
(* coverage(i) = |S_i| / |union of all S_j| x 100, with the same union size *)
(* as denominator for all rows of that check.                               *)
(*                                                                          *)
(* Completed: the last step was a coverage check over at least two          *)
(* instances that read the keys of every one of them; instance_keys are     *)
(* then the sets S_i of that check.                                         *)
(***************************************************************************)
Completed ==
    /\ checked.ran
    /\ Len(instance_keys) >= 2
    /\ checked.answering = DOMAIN instance_keys

UnionSize == Cardinality(all_keys(instance_keys))

\* C27 as stated: the row is the fraction |S_i| * 100 / |union| whatever the
\* union is
C27_CoverageIsShareOfUnion ==
    Completed =>
        \A i \in DOMAIN db_stats :
            db_stats[i].coverage = SomePct(Cardinality(instance_keys[i]) * 100, UnionSize)

\* C27 amended: after a completed check over a non-empty union every row is
\* |S_i| * 100 / |union| over the one union size; over an empty union every
\* row is 100; a check that did not complete leaves the rows as they were
C27_CoverageIsShareOfNonEmptyUnion ==
    /\ Completed /\ UnionSize > 0 =>
           \A i \in DOMAIN db_stats :
               db_stats[i].coverage = SomePct(Cardinality(instance_keys[i]) * 100, UnionSize)
    /\ Completed /\ UnionSize = 0 =>
           \A i \in DOMAIN db_stats : db_stats[i].coverage = SomePct(100, 1)
    /\ checked.ran /\ ~Completed => db_stats = checked.before

\* a completed check over a non-empty union in which two rows differ
C27_Witness ==
    /\ Completed
    /\ UnionSize > 0
    /\ \E i, j \in DOMAIN db_stats :
           /\ db_stats[i].coverage.num < db_stats[j].coverage.num
           /\ db_stats[i].coverage.den = UnionSize
           /\ db_stats[j].coverage.den = UnionSize

(***************************************************************************)
(* C28.  For the key sets S_1..S_k collected by one coverage check, the sum *)
(* over the instances of unique(i), the keys present in instance i and in   *)
(* no other, is at most the size of the union of the key sets.              *)
(***************************************************************************)
RECURSIVE SumUnique(_, _)
SumUnique(stats, i) ==
    IF i > Len(stats) THEN 0
    ELSE stats[i].unique_keys.value + SumUnique(stats, i + 1)

C28_UniqueSumAtMostUnion ==
    Completed =>
        /\ \A i \in DOMAIN db_stats : db_stats[i].unique_keys.some
        /\ SumUnique(db_stats, 1) <= UnionSize

\* a completed check with a key of one instance only and a shared key
C28_Witness ==
    /\ Completed
    /\ SumUnique(db_stats, 1) > 0
    /\ SumUnique(db_stats, 1) < UnionSize

(***************************************************************************)
(* C29.  For DBSIZE = N the type sampler stops exactly when the number of   *)
(* sampled keys reaches target = clamp(N * rate, min_samples,               *)
(* min(max_samples, N)) or the SCAN cursor returns to 0, whichever happens  *)
(* first; the number of sampled keys never exceeds the target.              *)
(*                                                                          *)
(* Stated over a call that has computed its target: while the call is in    *)
(* its loop the target is not reached yet, the count never passes the       *)
(* target, and a call that returned Ok either reached the target or ended   *)
(* on cursor 0.                                                             *)
(***************************************************************************)
SamplerInLoop == sm.pc \in {"scan", "batch"}

C29_StopsAtTargetOrScanEnd ==
    sm.total_keys > 0 /\ sm.pc # "idle" =>
        /\ sm.target_samples = target_samples(sm.total_keys, sm.config)
        /\ sm.total_sampled <= sm.target_samples
        /\ SamplerInLoop => sm.total_sampled < sm.target_samples
        /\ sm.pc = "returned" /\ sm.result = "Ok" =>
               \/ sm.total_sampled = sm.target_samples
               \/ sm.keys = 0 /\ sm.new_cursor = 0 /\ sm.cursor = 0

(***************************************************************************)
(* C30.  The migration mode can be toggled only before setup: once an 's'   *)
(* keypress has started setup no Tab keypress changes the mode, so the mode *)
(* held in the UI state always equals the mode the setup task was started   *)
(* with.                                                                    *)
(***************************************************************************)
C30_ModeIsSetupTaskMode ==
    \A t \in TasksOf("setup") : t.mode = migration_state.mode

(***************************************************************************)
(* C31.  The debug log never holds more than 20 entries (LogCapacity here); *)
(* when an entry is appended to a full log the oldest entry is dropped and  *)
(* the remaining entries keep their order: the log is always the newest     *)
(* LogCapacity messages passed to log_debug, oldest first.                  *)
(***************************************************************************)
Newest(history, n) ==
    IF Len(history) <= n THEN history
    ELSE SubSeq(history, Len(history) - n + 1, Len(history))

C31_LogKeepsNewestInOrder ==
    /\ Len(debug_log) <= LogCapacity
    /\ debug_log = Newest(logged, LogCapacity)

\* the log was full and two more messages were appended to it
C31_Witness ==
    /\ Len(logged) >= LogCapacity + 2
    /\ Len(debug_log) = LogCapacity
    /\ debug_log[1] # logged[1]

(***************************************************************************)
(* C32.  At most one setup task is started per program run: after the first *)
(* 's' keypress has started setup, no later 's' keypress starts another     *)
(* setup task, whatever the timing between keypresses and the delivery of   *)
(* the task's first progress event.                                         *)
(***************************************************************************)
C32_OneSetupTaskPerRun == setup_runs <= 1

(***************************************************************************)
(* C34.  Setup failure is terminal: once the setup state has become         *)
(* Failed(msg) it never changes again during the run; no later keypress     *)
(* restarts setup and no later setup event overwrites it.                   *)
(***************************************************************************)
C34_SetupFailedIsTerminal ==
    [][migration_state.setup_step.tag = "Failed" =>
           /\ migration_state'.setup_step = migration_state.setup_step
           /\ setup_runs' = setup_runs]_vars

(***************************************************************************)
(* C33.  At most one status-polling task is active at any time: a second    *)
(* migrate trigger cannot be started while a trigger request or polling     *)
(* loop started by an earlier migrate keypress is still in flight.          *)
(***************************************************************************)
\* the trigger_migration_task instances that have not returned
TriggersInFlight ==
    LET S == TasksOf("trigger")
        RECURSIVE Count(_)
        Count(T) == IF T = {} THEN 0
                    ELSE LET t == CHOOSE x \in T : TRUE
                         IN  CopiesIn(t, tasks) + Count(T \ {t})
    IN  Count(S)

C33_OneTriggerInFlight == TriggersInFlight <= 1

(***************************************************************************)
(* C35.  A decode error on a cache read is treated distinct from a miss by  *)
(* the query worker: a query whose get returned an error is not counted in  *)
(* cache_misses_total and does not trigger a miss-fill write of that key.   *)
(***************************************************************************)
\* the last call was a query whose cache get returned Err: the GET failed, or
\* it found a value (metric "hit") that the query did not accept as a hit
QueryGetErred ==
    /\ call.op = "query"
    /\ call.events # <<>>
    /\ \/ call.events[1] = Metric("get", "error")
       \/ /\ call.events[1] = Metric("get", "hit")
          /\ call.ret # [tag |-> "Ok", value |-> "true"]

C35_GetErrorIsNotAMiss ==
    QueryGetErred =>
        /\ \A i \in DOMAIN counted(call.ret) : counted(call.ret)[i] # "cache_misses_total"
        /\ \A i \in DOMAIN call.cmds : call.cmds[i].cmd # "SETEX"

(***************************************************************************)
(* C36.  Every executed query increments queries_executed_total once and    *)
(* exactly one of cache_hits_total or cache_misses_total once, so at every  *)
(* instant cache_hits_total + cache_misses_total <= queries_executed_total  *)
(* <= cache_hits_total + cache_misses_total + (number of workers), with     *)
(* equality on the left whenever no worker is between the two increments.   *)
(***************************************************************************)
HitsAndMisses == query_counters["cache_hits_total"] + query_counters["cache_misses_total"]

\* the workers that have incremented queries_executed_total for their query
\* and not yet the hit or miss counter
BetweenIncrements == {w \in QueryWorkers : Len(query_workers[w].todo) = 1}

C36_HitsPlusMissesTrackQueries ==
    /\ HitsAndMisses <= query_counters["queries_executed_total"]
    /\ query_counters["queries_executed_total"] <= HitsAndMisses + NumQueryWorkers
    /\ BetweenIncrements = {} =>
           query_counters["queries_executed_total"] = HitsAndMisses

\* hits and misses have been counted and every worker is between its two
\* increments
C36_Witness ==
    /\ BetweenIncrements = QueryWorkers
    /\ query_counters["cache_hits_total"] > 0
    /\ query_counters["cache_misses_total"] > 0
    /\ query_counters["queries_executed_total"] = HitsAndMisses + NumQueryWorkers

(***************************************************************************)
(* C37.  Under any interleaving of record and drain calls, every record     *)
(* call is counted by exactly one drain: the sum of the counts returned by  *)
(* all drains plus the residual counter equals the number of record calls   *)
(* that have incremented the counter (no record is lost or counted twice).  *)
(*                                                                          *)
(* Stated step by step: the increments not yet returned by a drain are the  *)
(* counter plus the count a drain in progress has taken; a record's         *)
(* fetch_add adds one to them, a returning drain removes exactly the count  *)
(* it returns, and no other step changes them.                              *)
(***************************************************************************)
NotYetReturned == total_count + (IF dr.pc # "idle" THEN dr.count ELSE 0)

C37_EveryRecordCountedOnce ==
    [][LET incremented == IF \E w \in Writers : wr[w].pc = "idle" /\ wr'[w].pc = "sum"
                          THEN 1 ELSE 0
           returned == IF hlast' = "drain" THEN hres'.count ELSE 0
       IN  NotYetReturned' = NotYetReturned + incremented - returned]_vars

\* a drain has returned a count while a record call that incremented the
\* counter after the drain's swap is still to be counted
C37_Witness ==
    /\ hlast = "drain"
    /\ hres.count > 0
    /\ total_count > 0

(***************************************************************************)
(* C38.  When fewer than R samples are recorded between two consecutive     *)
(* drains (no concurrency), the percentiles returned by the second drain    *)
(* are computed from exactly the positive samples recorded since the first  *)
(* drain: none from an earlier window and none left out.                    *)
(*                                                                          *)
(* With calls run one at a time, the total_count calls recorded since the   *)
(* last drain wrote the total_count slots that end before write_idx.        *)
(***************************************************************************)
RecordedSinceDrain ==
    [j \in 1 .. total_count |->
        samples[(write_idx + SAMPLE_SLOTS * MaxCount - total_count + j - 1) % SAMPLE_SLOTS]]

PositiveSamples(seq) == SelectSeq(seq, LAMBDA v : v > 0)

C38_PercentilesOfTheWindow ==
    [][(hlast' = "drain" /\ total_count < SAMPLE_SLOTS) =>
           LET expected == DrainResult(total_count, sum_ns, min_ns, max_ns,
                                       PositiveSamples(RecordedSinceDrain))
           IN  /\ hres'.p50_us = expected.p50_us
               /\ hres'.p95_us = expected.p95_us
               /\ hres'.p99_us = expected.p99_us]_vars

(***************************************************************************)
(* C39.  If the key scan of any observed instance fails during a coverage   *)
(* check, no row's unique-key count or coverage value is modified, so the   *)
(* displayed rows always come from one and the same completed check.        *)
(***************************************************************************)
\* the rows a check over the key sets writes when it reads every instance
RowsOf(key_sets) == run_coverage_check(db_stats, key_sets, DOMAIN key_sets)

C39_RowsFromOneCompletedCheck ==
    /\ checked.ran /\ checked.answering # DOMAIN instance_keys =>
           db_stats = checked.before
    /\ IF checked.last_sets = <<>>
       THEN \A i \in DOMAIN db_stats : db_stats[i] = DbStatsNew
       ELSE db_stats = RowsOf(checked.last_sets)

\* a check in which some but not all instances answered, run after the
\* contents changed since the last completed check
C39_Witness ==
    /\ checked.ran
    /\ checked.answering # {}
    /\ checked.answering # DOMAIN instance_keys
    /\ checked.last_sets # <<>>
    /\ \E i \in checked.answering : checked.last_sets[i] # instance_keys[i]

(***************************************************************************)
(* C40.  Whenever the setup state is Ready, the authentication token, the   *)
(* migration identifier and the interlay identifier are all present, so no  *)
(* command handler that passes its guard unwraps an absent identifier.      *)
(***************************************************************************)
\* the Options that the command handlers unwrap (main.rs:2001-2003,
\* 2014-2016, 2063-2065, 2076-2078, 2089-2092, 2122-2124)
IdentifiersPresent(ms) == ms.auth_token /\ ms.migration_id /\ ms.interlay_id

\* the guard of some command handler holds
SomeGuardPasses(ms) ==
    \/ can_migrate(ms)
    \/ is_ready(ms)
    \/ can_complete(ms)
    \/ can_cancel(ms)
    \/ can_rollback(ms)
    \/ can_update_traffic(ms)

C40_ReadyHasIdentifiers ==
    /\ is_ready(migration_state) => IdentifiersPresent(migration_state)
    /\ SomeGuardPasses(migration_state) => IdentifiersPresent(migration_state)

\* the setup task has sent SetupComplete, SetupProgress(Ready) and its status,
\* all three have been processed and the migrate key passes its guard
C40_Witness ==
    /\ can_migrate(migration_state)
    /\ IdentifiersPresent(migration_state)
    /\ TasksOf("setup") = {}
    /\ chan = <<>>
    /\ setup_runs = 1

OrderedResult(r) ==
    /\ 0 <= r.min_us
    /\ r.min_us <= r.p50_us
    /\ r.p50_us <= r.p95_us
    /\ r.p95_us <= r.p99_us
    /\ r.p99_us <= r.max_us

\* C5: every drain that follows a sequence of record calls, on a fresh or on a
\* previously drained histogram, returns 0 <= min <= p50 <= p95 <= p99 <= max
\* whenever the returned count is positive.
C5_DrainOrdered == (hlast = "drain" /\ hres.count > 0) => OrderedResult(hres)

\* C6: with record calls interleaved arbitrarily with drains, no drain returns
\* a tuple in which min is greater than max.
C6_MinNotAboveMax == hlast = "drain" => hres.min_us <= hres.max_us

\* C7: after a drain with no concurrent writer the histogram is empty:
\* count = 0, sum = 0, min = MAX, max = 0 and every slot holds 0.
C7_DrainLeavesEmpty ==
    hlast = "drain" =>
        /\ total_count = 0
        /\ sum_ns = 0
        /\ min_ns = U64_MAX
        /\ max_ns = 0
        /\ \A i \in Slots : samples[i] = 0

\* C8: a setup step that fails with a non-conflict error is reported Failed,
\* the task then sends SetupFailed with the same message and returns: it is at
\* no later step and never at the SetupComplete / Ready sends; processing
\* SetupFailed(msg) sets the setup state to Failed(msg), and processing the
\* step's Failed update records it in api_calls.
C8_ErrorEndsSetup ==
    /\ \A t \in TasksOf("setup") :
           t.how = "error" =>
               /\ t.pc \in {"failed", "setup_failed"}
               /\ t.pc = "failed" =>
                      SetupEvent(t) = ApiCallUpdate(t.step, FailedWith(t.val), "setup")
               /\ t.pc = "setup_failed" => SetupEvent(t) = SetupFailed(t.val, "setup")
               /\ SetupAfterSend([t EXCEPT !.pc = "setup_failed"]) = Done
    /\ last_event.ev.type = "SetupFailed" =>
           /\ migration_state.setup_step = FailedWith(last_event.ev.msg)
           /\ migration_state.last_error = last_event.ev.msg
    /\ (last_event.ev.type = "ApiCallUpdate" /\ last_event.ev.tag = "Failed") =>
           migration_state.api_calls[last_event.ev.index] = FailedWith(last_event.ev.msg)

\* C8 case: SetupFailed("error") has been processed and the task that sent it
\* is gone
C8_Witness ==
    /\ last_event.ev.type = "SetupFailed"
    /\ last_event.ev.msg = "error"
    /\ migration_state.setup_step = FailedWith("error")
    /\ tasks = EmptyBag

\* C9 as stated: whenever a create request is answered with a conflict, the
\* task issues the matching GET, marks the step Skipped and goes on.
C9_ConflictAlwaysGets ==
    \A t \in TasksOf("setup") :
        /\ t.how = "conflict" => t.pc \in {"dbg_exists", "get"}
        /\ t.how \in {"conflict_get_ok", "conflict_get_err"} =>
               t.pc \in {"dbg_existing", "skipped"}

\* C9: for the source endpoint, destination endpoint, interlay and migration
\* steps a conflict makes the task issue the matching GET; if the GET succeeds
\* the step is marked Skipped and setup goes on, if it fails the step is
\* reported Failed and setup ends.  A conflict on create-organization or
\* add-interlay is marked Skipped with no GET; a conflict on login fails setup.
C9_ConflictByStep ==
    \A t \in TasksOf("setup") :
        /\ (t.how = "conflict" /\ t.step \in StepsWithGet) => t.pc \in {"dbg_exists", "get"}
        /\ t.how = "conflict_get_ok" =>
               /\ t.step \in StepsWithGet
               /\ t.pc \in {"dbg_existing", "skipped"}
        /\ t.how = "conflict_get_err" =>
               /\ t.step \in StepsWithGet
               /\ t.pc \in {"failed", "setup_failed"}
        /\ (t.how = "conflict" /\ t.step \in {CREATE_ORG, ADD_INTERLAY}) => t.pc = "skipped"
        /\ (t.how = "conflict" /\ t.step = LOGIN) => t.pc \in {"failed", "setup_failed"}

\* C9 case: the existing migration was fetched after a conflict and the step
\* is about to be marked Skipped
C9_Witness ==
    \E t \in TasksOf("setup") :
        t.how = "conflict_get_ok" /\ t.step = CREATE_MIGRATION /\ t.pc = "skipped"
====
